---- MODULE Spec2Model ----
(***************************************************************************)
(* Model of the payoff engine (utils/payoffEngine.ts), of the payoff       *)
(* routes (routes/payoff.ts) and of the utilization calculations           *)
(* (utils/utilization.ts, routes/utilization.ts).                          *)
(*                                                                         *)
(* Units: money is an integer number of cents (the columns are             *)
(* DECIMAL(10,2)); an APR is an integer number of hundredths of a percent  *)
(* (28.99% is 2899).  The engine's IEEE-754 arithmetic is modelled by      *)
(* exact arithmetic on these units, so roundCents is exact rounding of a   *)
(* quotient of integers, half towards +infinity as Math.round does.        *)
(***************************************************************************)
EXTENDS Integers, Sequences, FiniteSets, TLC

VARIABLES
    input,                   \* EngineInput of the running calculatePayoffPlan call
    now,                     \* the clock read by getMonthIso: <<year, month>>
    pc,                      \* position in calculatePayoffPlan
    month,                   \* loop counter of the simulation loop
    balances,                \* Map cardId -> simulated balance
    freedMinimums,
    totalInterestCumulative,
    timeline,
    payoffDates,             \* Map cardId -> month of payoff
    paidOffSet,
    month1Extra,             \* Map cardId -> extra allocated in month 1
    month1Balances,          \* Map cardId -> balance at the end of month 1
    locals,                  \* the loop body's locals as the last iteration left them
    result,                  \* the PayoffPlanResult once returned
    scenario,                \* SimulationInput of the running simulateScenario call
    phase,                   \* position in simulateScenario ("direct": no such call)
    current,                 \* simulateScenario's first PayoffPlanResult
    simulation,              \* the SimulationResult once returned
    db,                      \* the persisted household and its cards
    request,                 \* the request served last
    response                 \* the response sent to it

engineVars == <<month, balances, freedMinimums, totalInterestCumulative, timeline,
                payoffDates, paidOffSet, month1Extra, month1Balances, locals>>

callerVars == <<scenario, phase, current, simulation>>

routeVars == <<db, request, response>>

vars == <<input, now, pc, result, engineVars, callerVars, routeVars>>

----------------------------------------------------------------------------
(* Bounds and input domains *)

MAX_MONTHS == 360

MaxCards == 2

\* Card profiles the inputs are drawn from (cents, hundredths of a percent, cents).
CardPool ==
    { [currentBalance |-> 100000, apr |-> 2400, minimumPayment |-> 2500],
      [currentBalance |-> 30000,  apr |-> 1000, minimumPayment |-> 2500],
      [currentBalance |-> 100000, apr |-> 2899, minimumPayment |-> 3000],
      [currentBalance |-> 101000, apr |-> 1000, minimumPayment |-> 5000],
      [currentBalance |-> 1000,   apr |-> 1200, minimumPayment |-> 0],
      [currentBalance |-> 0,      apr |-> 1500, minimumPayment |-> 2500],
      [currentBalance |-> -5000,  apr |-> 1500, minimumPayment |-> 2500] }

Budgets == {0, 20000, 65500}

\* An optional value is a sequence: <<>> is undefined, <<v>> is v.
OneTimeExtras == {<<>>, <<50000>>}

Strategies == {"avalanche", "snowball"}

Clocks == {<<2026, 11>>}

Card(i, p) ==
    [id |-> i, currentBalance |-> p.currentBalance, apr |-> p.apr,
     minimumPayment |-> p.minimumPayment]

CardLists ==
    UNION { { [i \in 1..n |-> Card(i, f[i])] : f \in [1..n -> CardPool] } :
            n \in 0..MaxCards }

\* inputs of sortCardsByStrategy called on its own
MaxSortLen == 3

SortPool ==
    { [currentBalance |-> b, apr |-> a, minimumPayment |-> 2500] :
      b \in {30000, 100000}, a \in {1000, 2400} }

SortLists ==
    UNION { { [i \in 1..n |-> Card(i, f[i])] : f \in [1..n -> SortPool] } :
            n \in 0..MaxSortLen }

SortInputs == [cards : SortLists, strategy : Strategies]

\* inputs of simulateScenario
ScenarioPool ==
    { [currentBalance |-> 100000, apr |-> 2400, minimumPayment |-> 2500],
      [currentBalance |-> 30000,  apr |-> 1000, minimumPayment |-> 2500],
      [currentBalance |-> 100000, apr |-> 1200, minimumPayment |-> 1000] }

ScenarioCardLists ==
    UNION { { [i \in 1..n |-> Card(i, f[i])] : f \in [1..n -> ScenarioPool] } :
            n \in 0..MaxCards }

\* portfolios on a small budget, where a little more money changes which card
\* is paid off first
TightPortfolios ==
    { << Card(1, [currentBalance |-> 50000, apr |-> 1200, minimumPayment |-> 5000]),
         Card(2, [currentBalance |-> 30000, apr |-> 2400, minimumPayment |-> 1000]) >>,
      << Card(1, [currentBalance |-> 101000, apr |-> 1000, minimumPayment |-> 5000]),
         Card(2, [currentBalance |-> 50000, apr |-> 0, minimumPayment |-> 0]) >> }

TightScenarios ==
    [cards : TightPortfolios, monthlyExtraBudget : {2000}, strategy : Strategies,
     oneTimePayment : {<<>>, <<0>>, <<1000>>},
     budgetChange : {<<>>, <<2000>>, <<2100>>},
     strategyOverride : {<<>>}]

SimulationInputs ==
    [cards : ScenarioCardLists, monthlyExtraBudget : {20000}, strategy : Strategies,
     oneTimePayment : {<<>>, <<50000>>},
     budgetChange : {<<>>, <<0>>, <<65500>>},
     strategyOverride : {<<>>, <<"avalanche">>, <<"snowball">>}]
    \cup TightScenarios

EngineInputs ==
    [cards : CardLists, monthlyExtraBudget : Budgets, strategy : Strategies,
     oneTimeExtra : OneTimeExtras]

----------------------------------------------------------------------------
(* Helpers *)

Min(a, b) == IF a <= b THEN a ELSE b

RECURSIVE SumSeq(_)
SumSeq(s) == IF s = <<>> THEN 0 ELSE Head(s) + SumSeq(Tail(s))

\* Map.get(k) ?? d
GetOr(m, k, d) == IF k \in DOMAIN m THEN m[k] ELSE d

\* roundCents(n) for n = num / den cents, den > 0: Math.round is floor(x + 1/2)
roundCents(num, den) == (2 * num + den) \div (2 * den)

\* bal cents * (apr / 100 hundredths / 100 percent) / 12 months
calculateMonthlyInterest(balance, apr) == roundCents(balance * apr, 100 * 100 * 12)

\* mutant: the month is printed as getMonth() gives it, from 0
getMonthIso_ZeroBasedMonth(clock, monthsFromNow) ==
    LET m0 == (clock[1] * 12 + (clock[2] - 1)) + monthsFromNow
    IN  <<m0 \div 12, m0 % 12>>

\* new Date(year, month + monthsFromNow, 1) as <<year, month>>, which the
\* code prints as "yyyy-mm"
getMonthIso(clock, monthsFromNow) ==
    LET m0 == (clock[1] * 12 + (clock[2] - 1)) + monthsFromNow
    IN  <<m0 \div 12, (m0 % 12) + 1>>

\* the same first-of-month date, which the code prints as "Mon yyyy"
getMonthLabel(clock, monthsFromNow) ==
    LET m0 == (clock[1] * 12 + (clock[2] - 1)) + monthsFromNow
    IN  <<(m0 % 12) + 1, m0 \div 12>>

----------------------------------------------------------------------------
(* sortCardsByStrategy *)

\* mutant: snowball leaves cards of equal balance in input order
Compare_SnowballBalanceOnly(a, b, strategy) ==
    IF strategy = "avalanche"
    THEN IF a.apr # b.apr THEN b.apr - a.apr
         ELSE a.currentBalance - b.currentBalance
    ELSE a.currentBalance - b.currentBalance

\* the comparator: negative when a sorts before b
Compare(a, b, strategy) ==
    IF strategy = "avalanche"
    THEN IF a.apr # b.apr THEN b.apr - a.apr
         ELSE a.currentBalance - b.currentBalance
    ELSE IF a.currentBalance # b.currentBalance
         THEN a.currentBalance - b.currentBalance
         ELSE b.apr - a.apr

\* mutant: a card is put before the cards it ties with
RECURSIVE InsertPos_BeforeTies(_, _, _, _)
InsertPos_BeforeTies(sorted, x, strategy, i) ==
    IF i > Len(sorted) THEN i
    ELSE IF Compare(sorted[i], x, strategy) >= 0 THEN i
    ELSE InsertPos_BeforeTies(sorted, x, strategy, i + 1)

\* position of x in an already sorted list: after every element that does not
\* sort after it (Array.prototype.sort is stable)
RECURSIVE InsertPos(_, _, _, _)
InsertPos(sorted, x, strategy, i) ==
    IF i > Len(sorted) THEN i
    ELSE IF Compare(sorted[i], x, strategy) > 0 THEN i
    ELSE InsertPos(sorted, x, strategy, i + 1)

InsertSorted(sorted, x, strategy) ==
    LET p == InsertPos(sorted, x, strategy, 1)
    IN  SubSeq(sorted, 1, p - 1) \o <<x>> \o SubSeq(sorted, p, Len(sorted))

RECURSIVE SortFrom(_, _, _, _)
SortFrom(cards, strategy, i, acc) ==
    IF i > Len(cards) THEN acc
    ELSE SortFrom(cards, strategy, i + 1, InsertSorted(acc, cards[i], strategy))

sortCardsByStrategy(cards, strategy) == SortFrom(cards, strategy, 1, <<>>)

----------------------------------------------------------------------------
(* calculatePayoffPlan: the pieces of the loop body *)

\* mutant: a zero balance counts as debt
ActiveCards_NonNegative(cards) == SelectSeq(cards, LAMBDA c : c.currentBalance >= 0)

ActiveCards(cards) == SelectSeq(cards, LAMBDA c : c.currentBalance > 0)
ZeroCards(cards) == SelectSeq(cards, LAMBDA c : c.currentBalance <= 0)

CardIds(cards) == {cards[i].id : i \in 1..Len(cards)}
CardById(cards, id) == cards[CHOOSE i \in 1..Len(cards) : cards[i].id = id]

\* mutant: interest is charged on the card's initial balance
InterestOf_OnInitialBalance(bal, card) ==
    IF bal[card.id] <= 0 THEN 0 ELSE calculateMonthlyInterest(card.currentBalance, card.apr)

\* step 1: interest charged to one card this month (0 when it is skipped)
InterestOf(bal, card) ==
    IF bal[card.id] <= 0 THEN 0 ELSE calculateMonthlyInterest(bal[card.id], card.apr)

\* mutant: the interest is counted but not added to the balance
ApplyInterest_NotAdded(active, bal) == bal

ApplyInterest(active, bal) ==
    [id \in DOMAIN bal |->
        IF bal[id] <= 0 THEN bal[id]
        ELSE roundCents(bal[id] + InterestOf(bal, CardById(active, id)), 1)]

\* step 2
MinimumOf(bal, card) ==
    IF bal[card.id] <= 0 THEN 0 ELSE Min(card.minimumPayment, bal[card.id])

\* mutant: the minimum payments are not applied
ApplyMinimums_Skipped(active, bal) == bal

ApplyMinimums(active, bal) ==
    [id \in DOMAIN bal |->
        IF bal[id] <= 0 THEN bal[id]
        ELSE roundCents(bal[id] - MinimumOf(bal, CardById(active, id)), 1)]

\* step 3
\* mutant: the one-time extra is added every month
AvailableExtra_EveryMonth(in, freed, m) ==
    LET base == in.monthlyExtraBudget + freed
        withOneTime ==
            IF in.oneTimeExtra # <<>> /\ in.oneTimeExtra[1] # 0
            THEN base + in.oneTimeExtra[1] ELSE base
    IN  roundCents(withOneTime, 1)

AvailableExtra(in, freed, m) ==
    LET base == in.monthlyExtraBudget + freed
        withOneTime ==
            IF m = 1 /\ in.oneTimeExtra # <<>> /\ in.oneTimeExtra[1] # 0
            THEN base + in.oneTimeExtra[1] ELSE base
    IN  roundCents(withOneTime, 1)

\* step 4
CardsWithBalance(active, bal, paid) ==
    SelectSeq(active, LAMBDA c : bal[c.id] > 0 /\ c.id \notin paid)

\* mutant: the cards are ordered by the balances the call was given
AllocationOrder_InitialBalances(active, bal, paid, strategy) ==
    sortCardsByStrategy(CardsWithBalance(active, bal, paid), strategy)

AllocationOrder(active, bal, paid, strategy) ==
    LET cardsWithBalance == CardsWithBalance(active, bal, paid) IN
    sortCardsByStrategy(
        [k \in 1..Len(cardsWithBalance) |->
            [cardsWithBalance[k] EXCEPT !.currentBalance = bal[cardsWithBalance[k].id]]],
        strategy)

\* mutant: the extra handed out is not taken off what is left
RECURSIVE AllocateExtra_NoDecrement(_, _, _, _, _)
AllocateExtra_NoDecrement(sorted, i, availableExtra, bal, extra) ==
    IF i > Len(sorted) \/ availableExtra <= 0
    THEN [balances |-> bal, availableExtra |-> availableExtra, extra |-> extra]
    ELSE LET id == sorted[i].id IN
         IF bal[id] <= 0
         THEN AllocateExtra_NoDecrement(sorted, i + 1, availableExtra, bal, extra)
         ELSE LET allocatable == roundCents(Min(availableExtra, bal[id]), 1) IN
              AllocateExtra_NoDecrement(sorted, i + 1, availableExtra,
                            [bal EXCEPT ![id] = roundCents(bal[id] - allocatable, 1)],
                            (id :> allocatable) @@ extra)

\* mutant: only the first card of the order receives extra
AllocateExtra_FirstCardOnly(sorted, i, availableExtra, bal, extra) ==
    IF i > Len(sorted) \/ availableExtra <= 0
    THEN [balances |-> bal, availableExtra |-> availableExtra, extra |-> extra]
    ELSE LET id == sorted[i].id
             allocatable == roundCents(Min(availableExtra, bal[id]), 1)
         IN  [balances |-> [bal EXCEPT ![id] = roundCents(bal[id] - allocatable, 1)],
              availableExtra |-> roundCents(availableExtra - allocatable, 1),
              extra |-> (id :> allocatable) @@ extra]

RECURSIVE AllocateExtra(_, _, _, _, _)
AllocateExtra(sorted, i, availableExtra, bal, extra) ==
    IF i > Len(sorted) \/ availableExtra <= 0
    THEN [balances |-> bal, availableExtra |-> availableExtra, extra |-> extra]
    ELSE LET id == sorted[i].id IN
         IF bal[id] <= 0
         THEN AllocateExtra(sorted, i + 1, availableExtra, bal, extra)
         ELSE LET allocatable == roundCents(Min(availableExtra, bal[id]), 1) IN
              AllocateExtra(sorted, i + 1,
                            roundCents(availableExtra - allocatable, 1),
                            [bal EXCEPT ![id] = roundCents(bal[id] - allocatable, 1)],
                            (id :> allocatable) @@ extra)

\* step 5
\* mutant: the paid-off set is not consulted
NewlyPaidOff_NoGuard(bal, paid) == {id \in DOMAIN bal : bal[id] <= 0}

NewlyPaidOff(bal, paid) == {id \in DOMAIN bal : bal[id] <= 0 /\ id \notin paid}

FreedBy(active, newly) ==
    SumSeq([k \in 1..Len(active) |->
              IF active[k].id \in newly THEN active[k].minimumPayment ELSE 0])

\* step 7
TimelineEntry(in, clock, m, bal, monthInterest, cumulative) ==
    LET active == ActiveCards(in.cards)
        allCards == active \o ZeroCards(in.cards)
    IN  [month |-> m,
         label |-> getMonthLabel(clock, m),
         cardBalances |->
            [k \in 1..Len(allCards) |->
                [cardId |-> allCards[k].id, balance |-> GetOr(bal, allCards[k].id, 0)]],
         totalDebt |-> roundCents(SumSeq([k \in 1..Len(active) |-> bal[active[k].id]]), 1),
         totalInterestThisMonth |-> monthInterest,
         totalInterestCumulative |-> cumulative]

\* the simulation state a call starts its loop with
InitialState(in) ==
    LET active == ActiveCards(in.cards) IN
    [balances |-> [id \in CardIds(active) |-> CardById(active, id).currentBalance],
     freedMinimums |-> 0,
     totalInterestCumulative |-> 0,
     timeline |-> <<>>,
     payoffDates |-> <<>>,
     paidOffSet |-> {},
     month1Extra |-> <<>>,
     month1Balances |-> <<>>,
     locals |-> <<>>]

\* mutant: the freed-minimum pool is kept from the call before
EntryState_PoolKept(in, old) ==
    [InitialState(in) EXCEPT !.freedMinimums = old.freedMinimums]

\* the state a call enters its loop with, whatever an earlier call left: every
\* map and counter is a local of the call
EntryState(in, old) == InitialState(in)

\* one iteration of the loop, steps 1 to 7
MonthBody(in, clock, s, m) ==
    LET active == ActiveCards(in.cards)
        monthInterest ==
            roundCents(SumSeq([k \in 1..Len(active) |-> InterestOf(s.balances, active[k])]), 1)
        afterInterest == ApplyInterest(active, s.balances)
        cumulative == roundCents(s.totalInterestCumulative + monthInterest, 1)
        afterMinimums == ApplyMinimums(active, afterInterest)
        availableExtra == AvailableExtra(in, s.freedMinimums, m)
        sorted == AllocationOrder(active, afterMinimums, s.paidOffSet, in.strategy)
        alloc == AllocateExtra(sorted, 1, availableExtra, afterMinimums, <<>>)
        newly == NewlyPaidOff(alloc.balances, s.paidOffSet)
        bal == [id \in DOMAIN alloc.balances |->
                    IF id \in newly THEN 0 ELSE alloc.balances[id]]
    IN  [balances |-> bal,
         freedMinimums |-> roundCents(s.freedMinimums + FreedBy(active, newly), 1),
         totalInterestCumulative |-> cumulative,
         timeline |-> Append(s.timeline, TimelineEntry(in, clock, m, bal, monthInterest, cumulative)),
         payoffDates |-> [id \in newly |-> m] @@ s.payoffDates,
         paidOffSet |-> s.paidOffSet \cup newly,
         month1Extra |-> IF m = 1 THEN alloc.extra ELSE s.month1Extra,
         month1Balances |-> IF m = 1 THEN bal ELSE s.month1Balances,
         locals |-> [afterInterest |-> afterInterest,
                     afterMinimums |-> afterMinimums,
                     availableExtra |-> availableExtra,
                     sorted |-> [k \in 1..Len(sorted) |-> sorted[k].id],
                     allocated |-> alloc.extra,
                     leftover |-> alloc.availableExtra,
                     newly |-> newly]]

\* mutant: the loop runs one month too many
LoopEnds_OffByOne(in, s, m) ==
    Cardinality(s.paidOffSet) = Len(ActiveCards(in.cards)) \/ m > MAX_MONTHS

\* mutant: the loop only stops at the horizon
LoopEnds_HorizonOnly(in, s, m) == m >= MAX_MONTHS

\* step 8 and the loop bound
LoopEnds(in, s, m) ==
    Cardinality(s.paidOffSet) = Len(ActiveCards(in.cards)) \/ m >= MAX_MONTHS

----------------------------------------------------------------------------
(* calculatePayoffPlan: the two returns *)

TotalCurrentDebt(in) ==
    roundCents(SumSeq([k \in 1..Len(in.cards) |-> in.cards[k].currentBalance]), 1)

NoDebtInstruction(c) ==
    [cardId |-> c.id,
     minimumPayment |-> c.minimumPayment,
     extraPayment |-> 0,
     newBalanceAfterPayment |-> 0,
     paysOffThisMonth |-> FALSE,
     projectedPayoffDate |-> <<>>]

NoDebtResult(in, clock) ==
    [paymentInstructions |->
        LET zeroCards == ZeroCards(in.cards) IN
        [k \in 1..Len(zeroCards) |-> NoDebtInstruction(zeroCards[k])],
     timeline |-> <<>>,
     totalInterestCost |-> 0,
     monthsToDebtFree |-> 0,
     debtFreeDate |-> getMonthIso(clock, 0),
     capped |-> FALSE,
     totalCurrentDebt |-> TotalCurrentDebt(in),
     monthlyExtraBudget |-> in.monthlyExtraBudget,
     strategy |-> in.strategy]

\* mutant: the flag is never raised
Capped_Never(in, s) == FALSE

Capped(in, s) == Cardinality(s.paidOffSet) < Len(ActiveCards(in.cards))

\* mutant: the new balance is the input balance less this month's payments
Instruction_InputLessPayments(c, clock, s) ==
    [cardId |-> c.id,
     minimumPayment |-> c.minimumPayment,
     extraPayment |-> GetOr(s.month1Extra, c.id, 0),
     newBalanceAfterPayment |->
         c.currentBalance - c.minimumPayment - GetOr(s.month1Extra, c.id, 0),
     paysOffThisMonth |-> (c.id \in DOMAIN s.payoffDates /\ s.payoffDates[c.id] = 1),
     projectedPayoffDate |->
         IF c.id \in DOMAIN s.payoffDates
         THEN <<getMonthIso(clock, s.payoffDates[c.id])>>
         ELSE <<>>]

Instruction(c, clock, s) ==
    [cardId |-> c.id,
     minimumPayment |-> c.minimumPayment,
     extraPayment |-> GetOr(s.month1Extra, c.id, 0),
     newBalanceAfterPayment |-> GetOr(s.month1Balances, c.id, 0),
     paysOffThisMonth |-> (c.id \in DOMAIN s.payoffDates /\ s.payoffDates[c.id] = 1),
     projectedPayoffDate |->
         IF c.id \in DOMAIN s.payoffDates
         THEN <<getMonthIso(clock, s.payoffDates[c.id])>>
         ELSE <<>>]

\* mutant: the instructions follow the timeline's card order
PaymentInstructions_ActiveFirst(in, clock, s) ==
    LET allCards == ActiveCards(in.cards) \o ZeroCards(in.cards) IN
    [k \in 1..Len(allCards) |-> Instruction(allCards[k], clock, s)]

PaymentInstructions(in, clock, s) ==
    [k \in 1..Len(in.cards) |-> Instruction(in.cards[k], clock, s)]

PlanResult(in, clock, s) ==
    LET capped == Capped(in, s)
        lastMonth == Len(s.timeline)
    IN  [paymentInstructions |-> PaymentInstructions(in, clock, s),
         timeline |-> s.timeline,
         totalInterestCost |-> s.totalInterestCumulative,
         monthsToDebtFree |-> IF capped THEN MAX_MONTHS ELSE lastMonth,
         debtFreeDate |-> getMonthIso(clock, IF capped THEN MAX_MONTHS ELSE lastMonth),
         capped |-> capped,
         totalCurrentDebt |-> TotalCurrentDebt(in),
         monthlyExtraBudget |-> in.monthlyExtraBudget,
         strategy |-> in.strategy]

\* the loop as a whole: the months m .. m + n - 1 from the state s month m
\* starts in, none of them run once step 8 has left the loop.  The months are
\* run in two halves to keep the evaluation shallow.
RECURSIVE RunLoop(_, _, _, _, _)
RunLoop(in, clock, s, m, n) ==
    IF m > 1 /\ LoopEnds(in, s, m - 1) THEN s
    ELSE IF n = 1 THEN MonthBody(in, clock, s, m)
    ELSE LET h == n \div 2 IN
         RunLoop(in, clock, RunLoop(in, clock, s, m, h), m + h, n - h)

\* a call of calculatePayoffPlan from entry to return
calculatePayoffPlan(in, clock) ==
    IF Len(ActiveCards(in.cards)) = 0
    THEN NoDebtResult(in, clock)
    ELSE PlanResult(in, clock, RunLoop(in, clock, InitialState(in), 1, MAX_MONTHS))

\* mutant: the ordering step stores the simulated balance in the caller's card
\* objects instead of in copies
CallerCards_WrittenThrough(cards, bal) ==
    [k \in 1..Len(cards) |->
        IF cards[k].id \in DOMAIN bal /\ bal[cards[k].id] > 0
        THEN [cards[k] EXCEPT !.currentBalance = bal[cards[k].id]]
        ELSE cards[k]]

\* the caller's card objects after a month: the loop reads them, keeps the
\* balances in its own map, and sorts spread copies in a copied array
CallerCards(cards, bal) == cards

----------------------------------------------------------------------------
(* The call of calculatePayoffPlan as a state machine, one step per month *)

State ==
    [balances |-> balances, freedMinimums |-> freedMinimums,
     totalInterestCumulative |-> totalInterestCumulative, timeline |-> timeline,
     payoffDates |-> payoffDates, paidOffSet |-> paidOffSet,
     month1Extra |-> month1Extra, month1Balances |-> month1Balances,
     locals |-> locals]

SetState(s) ==
    /\ balances' = s.balances
    /\ freedMinimums' = s.freedMinimums
    /\ totalInterestCumulative' = s.totalInterestCumulative
    /\ timeline' = s.timeline
    /\ payoffDates' = s.payoffDates
    /\ paidOffSet' = s.paidOffSet
    /\ month1Extra' = s.month1Extra
    /\ month1Balances' = s.month1Balances
    /\ locals' = s.locals

\* no call of the engine has set up its state yet
EngineIdle ==
    /\ month = 0
    /\ balances = <<>>
    /\ freedMinimums = 0
    /\ totalInterestCumulative = 0
    /\ timeline = <<>>
    /\ payoffDates = <<>>
    /\ paidOffSet = {}
    /\ month1Extra = <<>>
    /\ month1Balances = <<>>
    /\ locals = <<>>

NoCaller ==
    /\ scenario = <<>>
    /\ phase = "direct"
    /\ current = <<>>
    /\ simulation = <<>>

\* no route is involved
NoServer ==
    /\ db = <<>>
    /\ request = <<>>
    /\ response = <<>>

\* a direct call of calculatePayoffPlan
Init ==
    /\ input \in EngineInputs
    /\ now \in Clocks
    /\ pc = "call"
    /\ result = <<>>
    /\ EngineIdle
    /\ NoCaller
    /\ NoServer

\* no card carries debt: the immediate return
ReturnNoDebt ==
    /\ pc = "call"
    /\ Len(ActiveCards(input.cards)) = 0
    /\ result' = NoDebtResult(input, now)
    /\ pc' = "done"
    /\ UNCHANGED <<input, now, engineVars, callerVars, routeVars>>

\* the mutable state is set up and the loop entered
BeginSimulation ==
    /\ pc = "call"
    /\ Len(ActiveCards(input.cards)) # 0
    /\ SetState(EntryState(input, State))
    /\ month' = 1
    /\ pc' = "loop"
    /\ UNCHANGED <<input, now, result, callerVars, routeVars>>

\* one iteration of the loop
SimulateMonth ==
    /\ pc = "loop"
    /\ LET s == MonthBody(input, now, State, month) IN
        /\ SetState(s)
        /\ IF LoopEnds(input, s, month)
           THEN pc' = "return" /\ month' = month
           ELSE pc' = "loop" /\ month' = month + 1
        /\ input' = [input EXCEPT !.cards = CallerCards(input.cards, s.locals.afterMinimums)]
    /\ UNCHANGED <<now, result, callerVars, routeVars>>

\* the instructions are built and the result returned
ReturnPlan ==
    /\ pc = "return"
    /\ result' = PlanResult(input, now, State)
    /\ pc' = "done"
    /\ UNCHANGED <<input, now, engineVars, callerVars, routeVars>>

Next == ReturnNoDebt \/ BeginSimulation \/ SimulateMonth \/ ReturnPlan

Spec == Init /\ [][Next]_vars

----------------------------------------------------------------------------
(* A call of sortCardsByStrategy on its own *)

InitSort ==
    /\ input \in SortInputs
    /\ now \in Clocks
    /\ pc = "sort"
    /\ result = <<>>
    /\ EngineIdle
    /\ NoCaller
    /\ NoServer

SortCards ==
    /\ pc = "sort"
    /\ result' = sortCardsByStrategy(input.cards, input.strategy)
    /\ pc' = "sorted"
    /\ UNCHANGED <<input, now, engineVars, callerVars, routeVars>>

NextSort == SortCards

SpecSort == InitSort /\ [][NextSort]_vars

----------------------------------------------------------------------------
(* simulateScenario: two calls of calculatePayoffPlan and their difference *)

CurrentInput(sc) ==
    [cards |-> sc.cards,
     monthlyExtraBudget |-> sc.monthlyExtraBudget,
     strategy |-> sc.strategy,
     oneTimeExtra |-> <<>>]

\* mutant: a budgetChange of 0 is taken for an absent one
SimulatedInput_Truthy(sc) ==
    [cards |-> sc.cards,
     monthlyExtraBudget |->
        IF sc.budgetChange # <<>> /\ sc.budgetChange[1] # 0
        THEN sc.budgetChange[1] ELSE sc.monthlyExtraBudget,
     strategy |-> IF sc.strategyOverride # <<>> THEN sc.strategyOverride[1] ELSE sc.strategy,
     oneTimeExtra |-> sc.oneTimePayment]

SimulatedInput(sc) ==
    [cards |-> sc.cards,
     monthlyExtraBudget |->
        IF sc.budgetChange # <<>> THEN sc.budgetChange[1] ELSE sc.monthlyExtraBudget,
     strategy |-> IF sc.strategyOverride # <<>> THEN sc.strategyOverride[1] ELSE sc.strategy,
     oneTimeExtra |-> sc.oneTimePayment]

Summary(plan) ==
    [totalInterestCost |-> plan.totalInterestCost,
     monthsToDebtFree |-> plan.monthsToDebtFree,
     debtFreeDate |-> plan.debtFreeDate]

\* mutant: the deltas are taken the other way round
ScenarioResult_SimulatedLessCurrent(cur, sim) ==
    [current |-> Summary(cur),
     simulated |-> Summary(sim),
     interestSaved |-> roundCents(sim.totalInterestCost - cur.totalInterestCost, 1),
     monthsSaved |-> sim.monthsToDebtFree - cur.monthsToDebtFree]

ScenarioResult(cur, sim) ==
    [current |-> Summary(cur),
     simulated |-> Summary(sim),
     interestSaved |-> roundCents(cur.totalInterestCost - sim.totalInterestCost, 1),
     monthsSaved |-> cur.monthsToDebtFree - sim.monthsToDebtFree]

\* a call of simulateScenario from entry to return
simulateScenario(sc, clock) ==
    ScenarioResult(calculatePayoffPlan(CurrentInput(sc), clock),
                   calculatePayoffPlan(SimulatedInput(sc), clock))

InitScenario ==
    /\ scenario \in SimulationInputs
    /\ phase = "entry"
    /\ current = <<>>
    /\ simulation = <<>>
    /\ input = <<>>
    /\ now \in Clocks
    /\ pc = "idle"
    /\ result = <<>>
    /\ EngineIdle
    /\ NoServer

\* the first call: the current plan
CallCurrent ==
    /\ phase = "entry"
    /\ input' = CurrentInput(scenario)
    /\ pc' = "call"
    /\ phase' = "current"
    /\ UNCHANGED <<now, result, engineVars, scenario, current, simulation, routeVars>>

\* the first call has returned; the second call: the simulated plan, on the
\* same card objects the first call was given
CallSimulated ==
    /\ phase = "current"
    /\ pc = "done"
    /\ current' = result
    /\ input' = SimulatedInput([scenario EXCEPT !.cards = input.cards])
    /\ pc' = "call"
    /\ result' = <<>>
    /\ phase' = "simulated"
    /\ UNCHANGED <<now, engineVars, scenario, simulation, routeVars>>

\* the second call has returned: the comparison is returned
ReturnScenario ==
    /\ phase = "simulated"
    /\ pc = "done"
    /\ simulation' = ScenarioResult(current, result)
    /\ phase' = "returned"
    /\ UNCHANGED <<input, now, pc, result, engineVars, scenario, current, routeVars>>

NextScenario ==
    \/ CallCurrent
    \/ ReturnNoDebt
    \/ BeginSimulation
    \/ SimulateMonth
    \/ ReturnPlan
    \/ CallSimulated
    \/ ReturnScenario

SpecScenario == InitScenario /\ [][NextScenario]_vars

----------------------------------------------------------------------------
(* routes/payoff.ts: GET /plan, GET /timeline and POST /simulate.  The      *)
(* request is authenticated and names its household; the database holds     *)
(* that household's row, if any, and its cards.                             *)

StoredPool ==
    { [currentBalance |-> 100000, apr |-> 2400, minimumPayment |-> 2500, isActive |-> TRUE],
      [currentBalance |-> 30000,  apr |-> 1000, minimumPayment |-> 2500, isActive |-> TRUE],
      [currentBalance |-> 30000,  apr |-> 1000, minimumPayment |-> 2500, isActive |-> FALSE] }

StoredCard(i, p) ==
    [id |-> i, currentBalance |-> p.currentBalance, apr |-> p.apr,
     minimumPayment |-> p.minimumPayment, isActive |-> p.isActive]

StoredCardLists ==
    UNION { { [i \in 1..n |-> StoredCard(i, f[i])] : f \in [1..n -> StoredPool] } :
            n \in 0..MaxCards }

Households ==
    {<<>>} \cup { <<[monthlyExtraBudget |-> 20000, payoffStrategy |-> s]>> : s \in Strategies }

Databases == [household : Households, cards : StoredCardLists]

\* a value of the query string or of the JSON body that should be a number
Num(v) == [isNumber |-> TRUE, value |-> v]

NotANumber == [isNumber |-> FALSE, value |-> 0]

QueryBudgets == {<<>>, <<Num(0)>>, <<Num(65500)>>, <<Num(-100)>>, <<NotANumber>>}

PlanRequests == [kind : {"plan"}, budget : QueryBudgets]

TimelineRequests == [kind : {"timeline"}, budget : {<<>>, <<Num(65500)>>}]

SimulateRequest(o, b, s) ==
    [kind |-> "simulate", oneTimePayment |-> o, budgetChange |-> b, strategy |-> s]

SimulateRequests ==
    { SimulateRequest(<<>>, <<>>, <<>>),
      SimulateRequest(<<Num(50000)>>, <<>>, <<>>),
      SimulateRequest(<<Num(-100)>>, <<>>, <<>>),
      SimulateRequest(<<>>, <<Num(0)>>, <<>>),
      SimulateRequest(<<>>, <<NotANumber>>, <<>>),
      SimulateRequest(<<>>, <<>>, <<"fastest">>),
      SimulateRequest(<<Num(50000)>>, <<Num(65500)>>, <<"snowball">>) }

IsActive(c) == c.isActive

getHouseholdCards(d) ==
    LET cards == SelectSeq(d.cards, IsActive) IN
    [k \in 1..Len(cards) |->
        [id |-> cards[k].id, currentBalance |-> cards[k].currentBalance,
         apr |-> cards[k].apr, minimumPayment |-> cards[k].minimumPayment]]

\* isNaN(override) || override < 0, and typeof v !== 'number' || v < 0
InvalidAmount(v) == ~v.isNumber \/ v.value < 0

Failure(code) == [status |-> code, body |-> [error |-> TRUE]]

\* the budget the plan and timeline handlers pass to the engine
RequestBudget(household, req) ==
    IF req.budget # <<>> THEN req.budget[1].value ELSE household.monthlyExtraBudget

RoutePlan(d, req, clock) ==
    calculatePayoffPlan([cards |-> getHouseholdCards(d),
                         monthlyExtraBudget |-> RequestBudget(d.household[1], req),
                         strategy |-> d.household[1].payoffStrategy,
                         oneTimeExtra |-> <<>>], clock)

\* GET /plan
PlanResponse(d, req, clock) ==
    IF d.household = <<>> THEN Failure(404)
    ELSE IF Len(getHouseholdCards(d)) = 0 THEN [status |-> 200, body |-> [plan |-> <<>>]]
    ELSE IF req.budget # <<>> /\ InvalidAmount(req.budget[1]) THEN Failure(400)
    ELSE LET r == RoutePlan(d, req, clock) IN
         [status |-> 200,
          body |-> [plan |-> <<[paymentInstructions |-> r.paymentInstructions,
                               totalInterestCost |-> r.totalInterestCost,
                               monthsToDebtFree |-> r.monthsToDebtFree,
                               debtFreeDate |-> r.debtFreeDate,
                               capped |-> r.capped,
                               totalCurrentDebt |-> r.totalCurrentDebt,
                               monthlyExtraBudget |-> r.monthlyExtraBudget,
                               strategy |-> r.strategy]>>]]

\* GET /timeline
TimelineResponse(d, req, clock) ==
    IF d.household = <<>> THEN Failure(404)
    ELSE IF Len(getHouseholdCards(d)) = 0
         THEN [status |-> 200, body |-> [timeline |-> <<>>]]
    ELSE IF req.budget # <<>> /\ InvalidAmount(req.budget[1]) THEN Failure(400)
    ELSE LET r == RoutePlan(d, req, clock) IN
         [status |-> 200,
          body |-> [timeline |-> r.timeline,
                    monthsToDebtFree |-> r.monthsToDebtFree,
                    totalInterestCost |-> r.totalInterestCost,
                    debtFreeDate |-> r.debtFreeDate,
                    capped |-> r.capped]]

\* an optional number of the body as the engine receives it
Amount(o) == IF o = <<>> THEN <<>> ELSE <<o[1].value>>

\* POST /simulate
SimulateResponse(d, req, clock) ==
    IF req.oneTimePayment = <<>> /\ req.budgetChange = <<>> /\ req.strategy = <<>>
    THEN Failure(400)
    ELSE IF req.oneTimePayment # <<>> /\ InvalidAmount(req.oneTimePayment[1]) THEN Failure(400)
    ELSE IF req.budgetChange # <<>> /\ InvalidAmount(req.budgetChange[1]) THEN Failure(400)
    ELSE IF req.strategy # <<>> /\ req.strategy[1] \notin {"avalanche", "snowball"}
         THEN Failure(400)
    ELSE IF d.household = <<>> THEN Failure(404)
    ELSE IF Len(getHouseholdCards(d)) = 0
         THEN [status |-> 200, body |-> [simulation |-> <<>>]]
    ELSE [status |-> 200,
          body |-> [simulation |->
            <<simulateScenario([cards |-> getHouseholdCards(d),
                                monthlyExtraBudget |-> d.household[1].monthlyExtraBudget,
                                strategy |-> d.household[1].payoffStrategy,
                                oneTimePayment |-> Amount(req.oneTimePayment),
                                budgetChange |-> Amount(req.budgetChange),
                                strategyOverride |-> req.strategy], clock)>>]]

\* mutant: a valid budget override is saved as the household's setting
Persisted_SavesOverride(d, req) ==
    IF /\ req.kind \in {"plan", "timeline"}
       /\ d.household # <<>>
       /\ req.budget # <<>>
       /\ ~InvalidAmount(req.budget[1])
    THEN [d EXCEPT !.household = <<[d.household[1] EXCEPT
                                      !.monthlyExtraBudget = req.budget[1].value]>>]
    ELSE d

\* the database after a request: the handlers only issue findUnique and findMany
Persisted(d, req) == d

InitRoutes ==
    /\ db \in Databases
    /\ request = [kind |-> "none"]
    /\ response = [status |-> 0]
    /\ input = <<>>
    /\ now \in Clocks
    /\ pc = "serve"
    /\ result = <<>>
    /\ EngineIdle
    /\ NoCaller

GetPlan ==
    \E req \in PlanRequests :
        /\ pc = "serve"
        /\ request' = req
        /\ response' = PlanResponse(db, req, now)
        /\ db' = Persisted(db, req)
        /\ UNCHANGED <<input, now, pc, result, engineVars, callerVars>>

GetTimeline ==
    \E req \in TimelineRequests :
        /\ pc = "serve"
        /\ request' = req
        /\ response' = TimelineResponse(db, req, now)
        /\ db' = Persisted(db, req)
        /\ UNCHANGED <<input, now, pc, result, engineVars, callerVars>>

PostSimulate ==
    \E req \in SimulateRequests :
        /\ pc = "serve"
        /\ request' = req
        /\ response' = SimulateResponse(db, req, now)
        /\ db' = Persisted(db, req)
        /\ UNCHANGED <<input, now, pc, result, engineVars, callerVars>>

NextRoutes == GetPlan \/ GetTimeline \/ PostSimulate

SpecRoutes == InitRoutes /\ [][NextRoutes]_vars

----------------------------------------------------------------------------
(* utils/utilization.ts.  A utilization is an integer number of tenths of a *)
(* percent (29.3% is 293); money is in cents as before, so roundCents of a  *)
(* balance, a limit or a sum of them is that number of cents.               *)

MaxUtilCards == 3

\* balance and credit limit of the cards the inputs are drawn from
UtilPool ==
    { [currentBalance |-> 29300,  creditLimit |-> 100000],
      [currentBalance |-> 440000, creditLimit |-> 500000],
      [currentBalance |-> 5000,   creditLimit |-> 0],
      [currentBalance |-> 1225,   creditLimit |-> 10000],
      [currentBalance |-> 2996,   creditLimit |-> 10000],
      [currentBalance |-> 3004,   creditLimit |-> 10000],
      [currentBalance |-> 1,      creditLimit |-> 1],
      [currentBalance |-> 7500,   creditLimit |-> 10000] }

Owners == { [userId |-> 1, userName |-> "Ann"], [userId |-> 2, userName |-> "Bea"] }

UtilCard(i, p, o) ==
    [id |-> i, userId |-> o.userId, userName |-> o.userName,
     currentBalance |-> p.currentBalance, creditLimit |-> p.creditLimit]

\* the list of the n cards chosen by f
UtilCards(n, f) == [i \in 1..n |-> UtilCard(i, f[i][1], f[i][2])]

\* mutant: the tenths are cut off, not rounded
roundPercent_Truncated(num, den) == (10 * num) \div den

\* roundPercent(n) for n = num / den percent, den > 0, in tenths of a percent:
\* Math.round(n * 10) is floor(n * 10 + 1/2)
roundPercent(num, den) ==
    LET q == (10 * num) \div den
        r == (10 * num) % den
    IN  IF 2 * r >= den THEN q + 1 ELSE q

\* mutant: each band includes its upper threshold
getRatingFromUtilization_Inclusive(utilization) ==
    IF utilization <= 100 THEN [rating |-> "excellent", impact |-> "Excellent", color |-> "green"]
    ELSE IF utilization <= 300 THEN [rating |-> "good", impact |-> "Good", color |-> "green"]
    ELSE IF utilization <= 500 THEN [rating |-> "fair", impact |-> "Fair", color |-> "yellow"]
    ELSE IF utilization <= 750 THEN [rating |-> "poor", impact |-> "Poor", color |-> "orange"]
    ELSE [rating |-> "very_poor", impact |-> "Very Poor", color |-> "red"]

getRatingFromUtilization(utilization) ==
    IF utilization < 100 THEN [rating |-> "excellent", impact |-> "Excellent", color |-> "green"]
    ELSE IF utilization < 300 THEN [rating |-> "good", impact |-> "Good", color |-> "green"]
    ELSE IF utilization < 500 THEN [rating |-> "fair", impact |-> "Fair", color |-> "yellow"]
    ELSE IF utilization < 750 THEN [rating |-> "poor", impact |-> "Poor", color |-> "orange"]
    ELSE [rating |-> "very_poor", impact |-> "Very Poor", color |-> "red"]

\* limit > 0 ? roundPercent((balance / limit) * 100) : 0
UtilizationOf(balance, limit) ==
    IF limit > 0 THEN roundPercent(100 * balance, limit) ELSE 0

PerCard(card) ==
    LET utilization == UtilizationOf(card.currentBalance, card.creditLimit) IN
    [cardId |-> card.id, userName |-> card.userName, userId |-> card.userId,
     balance |-> roundCents(card.currentBalance, 1),
     creditLimit |-> roundCents(card.creditLimit, 1),
     utilization |-> utilization]
    @@ getRatingFromUtilization(utilization)

NewUser(card) ==
    [userId |-> card.userId, userName |-> card.userName,
     totalBalance |-> card.currentBalance, totalCreditLimit |-> card.creditLimit,
     cardCount |-> 1]

\* mutant: a user's entry is replaced by each further card of that user
RECURSIVE UserMap_LastCardOnly(_, _)
UserMap_LastCardOnly(cards, k) ==
    IF k = 0 THEN <<>>
    ELSE LET acc == UserMap_LastCardOnly(cards, k - 1)
             card == cards[k]
         IN  IF \E i \in 1..Len(acc) : acc[i].userId = card.userId
             THEN [i \in 1..Len(acc) |->
                     IF acc[i].userId = card.userId THEN NewUser(card) ELSE acc[i]]
             ELSE Append(acc, NewUser(card))

\* userMap after the cards 1..k, its entries in insertion order
RECURSIVE UserMap(_, _)
UserMap(cards, k) ==
    IF k = 0 THEN <<>>
    ELSE LET acc == UserMap(cards, k - 1)
             card == cards[k]
         IN  IF \E i \in 1..Len(acc) : acc[i].userId = card.userId
             THEN [i \in 1..Len(acc) |->
                     IF acc[i].userId = card.userId
                     THEN [acc[i] EXCEPT !.totalBalance = @ + card.currentBalance,
                                         !.totalCreditLimit = @ + card.creditLimit,
                                         !.cardCount = @ + 1]
                     ELSE acc[i]]
             ELSE Append(acc, NewUser(card))

PerUser(user) ==
    LET utilization == UtilizationOf(user.totalBalance, user.totalCreditLimit) IN
    [userId |-> user.userId, userName |-> user.userName,
     totalBalance |-> roundCents(user.totalBalance, 1),
     totalCreditLimit |-> roundCents(user.totalCreditLimit, 1),
     utilization |-> utilization,
     cardCount |-> user.cardCount]
    @@ getRatingFromUtilization(utilization)

HouseholdUtilization(cards) ==
    LET totalBalance ==
            roundCents(SumSeq([k \in 1..Len(cards) |-> cards[k].currentBalance]), 1)
        totalCreditLimit ==
            roundCents(SumSeq([k \in 1..Len(cards) |-> cards[k].creditLimit]), 1)
        householdUtilization == UtilizationOf(totalBalance, totalCreditLimit)
    IN  [totalBalance |-> totalBalance,
         totalCreditLimit |-> totalCreditLimit,
         utilization |-> householdUtilization,
         cardCount |-> Len(cards)]
        @@ getRatingFromUtilization(householdUtilization)

calculateUtilization(cards) ==
    IF Len(cards) = 0
    THEN [household |-> [totalBalance |-> 0, totalCreditLimit |-> 0, utilization |-> 0,
                         rating |-> "excellent", impact |-> "Excellent",
                         color |-> "green", cardCount |-> 0],
          perUser |-> <<>>,
          perCard |-> <<>>]
    ELSE LET users == UserMap(cards, Len(cards)) IN
         [household |-> HouseholdUtilization(cards),
          perUser |-> [k \in 1..Len(users) |-> PerUser(users[k])],
          perCard |-> [k \in 1..Len(cards) |-> PerCard(cards[k])]]

\* the milestone table
Thresholds ==
    << [threshold |-> 75, impact |-> "Very Poor", rating |-> "very_poor", color |-> "red"],
       [threshold |-> 50, impact |-> "Poor", rating |-> "poor", color |-> "orange"],
       [threshold |-> 30, impact |-> "Fair", rating |-> "fair", color |-> "yellow"],
       [threshold |-> 10, impact |-> "Good", rating |-> "good", color |-> "green"] >>

\* mutant: a milestone is achieved only strictly below its threshold
Milestone_StrictlyBelow(m, currentBalance, currentCreditLimit, currentUtilization) ==
    [threshold |-> m.threshold,
     label |-> ToString(m.threshold) \o "%",
     impact |-> m.impact, rating |-> m.rating, color |-> m.color,
     dollarsNeeded |->
        IF 100 * currentBalance > m.threshold * currentCreditLimit
        THEN roundCents(100 * currentBalance - m.threshold * currentCreditLimit, 100)
        ELSE 0,
     achieved |-> currentUtilization < 10 * m.threshold]

\* one milestone for a limit > 0: the target balance is threshold / 100 * limit
\* cents, compared and subtracted here in hundredths of a cent
Milestone(m, currentBalance, currentCreditLimit, currentUtilization) ==
    [threshold |-> m.threshold,
     label |-> ToString(m.threshold) \o "%",
     impact |-> m.impact, rating |-> m.rating, color |-> m.color,
     dollarsNeeded |->
        IF 100 * currentBalance > m.threshold * currentCreditLimit
        THEN roundCents(100 * currentBalance - m.threshold * currentCreditLimit, 100)
        ELSE 0,
     achieved |-> currentUtilization <= 10 * m.threshold]

\* mutant: without a limit no milestone is achieved
AchievedMilestone_Unachieved(m) ==
    [threshold |-> m.threshold,
     label |-> ToString(m.threshold) \o "%",
     impact |-> m.impact, rating |-> m.rating, color |-> m.color,
     dollarsNeeded |-> 0,
     achieved |-> FALSE]

\* one milestone for a limit <= 0
AchievedMilestone(m) ==
    [threshold |-> m.threshold,
     label |-> ToString(m.threshold) \o "%",
     impact |-> m.impact, rating |-> m.rating, color |-> m.color,
     dollarsNeeded |-> 0,
     achieved |-> TRUE]

calculateMilestones(currentBalance, currentCreditLimit) ==
    IF currentCreditLimit <= 0
    THEN [currentUtilization |-> 0,
          currentBalance |-> roundCents(currentBalance, 1),
          currentCreditLimit |-> 0,
          milestones |-> [k \in 1..Len(Thresholds) |-> AchievedMilestone(Thresholds[k])]]
    ELSE LET currentUtilization == roundPercent(100 * currentBalance, currentCreditLimit) IN
         [currentUtilization |-> currentUtilization,
          currentBalance |-> roundCents(currentBalance, 1),
          currentCreditLimit |-> roundCents(currentCreditLimit, 1),
          milestones |->
            [k \in 1..Len(Thresholds) |->
                Milestone(Thresholds[k], currentBalance, currentCreditLimit,
                          currentUtilization)]]

\* GET /api/utilization/milestones on the household's active cards
MilestonesRoute(cards) ==
    IF Len(cards) = 0 THEN [milestones |-> <<>>]
    ELSE [milestones |->
            <<calculateMilestones(SumSeq([k \in 1..Len(cards) |-> cards[k].currentBalance]),
                                  SumSeq([k \in 1..Len(cards) |-> cards[k].creditLimit]))>>]

InitUtil ==
    /\ \E n \in 0..MaxUtilCards :
        \E f \in [1..n -> UtilPool \X Owners] : input = [cards |-> UtilCards(n, f)]
    /\ now \in Clocks
    /\ pc = "call"
    /\ result = <<>>
    /\ EngineIdle
    /\ NoCaller
    /\ NoServer

\* a call of calculateUtilization
CalculateUtilization ==
    /\ pc = "call"
    /\ result' = calculateUtilization(input.cards)
    /\ pc' = "utilization"
    /\ UNCHANGED <<input, now, engineVars, callerVars, routeVars>>

\* a request for the milestones
GetMilestones ==
    /\ pc = "call"
    /\ result' = MilestonesRoute(input.cards)
    /\ pc' = "milestones"
    /\ UNCHANGED <<input, now, engineVars, callerVars, routeVars>>

NextUtil == CalculateUtilization \/ GetMilestones

SpecUtil == InitUtil /\ [][NextUtil]_vars

----------------------------------------------------------------------------
(* calculateHistoricalUtilization.  A snapshotDate is an instant, a whole   *)
(* number of hours since 00:00 UTC of a day 0; a date key, the text          *)
(* YYYY-MM-DD of toISOString, is the number of the UTC day, and the order of *)
(* localeCompare on such texts is the order of those numbers.               *)

MaxSnapshots == 3

\* hours 10 and 20 fall on day 0, hour 30 on day 1, hour 50 on day 2
SnapshotInstants == {10, 20, 30, 50}

SnapshotPool ==
    { [userId |-> 1, userName |-> "Ann",   balance |-> 29300, creditLimit |-> 100000],
      [userId |-> 1, userName |-> "Annie", balance |-> 29300, creditLimit |-> 100000],
      [userId |-> 2, userName |-> "Bea",   balance |-> 5000,  creditLimit |-> 0] }

Snapshot(i, p, d) ==
    [cardId |-> i, userId |-> p.userId, userName |-> p.userName, snapshotDate |-> d,
     balance |-> p.balance, creditLimit |-> p.creditLimit]

\* the list of the n snapshots chosen by f
Snapshots(n, f) == [i \in 1..n |-> Snapshot(i, f[i][1], f[i][2])]

\* snap.snapshotDate.toISOString().split('T')[0]
dateKey(snap) == snap.snapshotDate \div 24

NewDate(snap) ==
    [date |-> dateKey(snap), userName |-> snap.userName,
     totalBalance |-> snap.balance, totalCreditLimit |-> snap.creditLimit]

\* a Map keyed by date after one more snapshot, its entries in insertion order
AddToDates(dates, snap) ==
    IF \E i \in 1..Len(dates) : dates[i].date = dateKey(snap)
    THEN [i \in 1..Len(dates) |->
            IF dates[i].date = dateKey(snap)
            THEN [dates[i] EXCEPT !.totalBalance = @ + snap.balance,
                                  !.totalCreditLimit = @ + snap.creditLimit]
            ELSE dates[i]]
    ELSE Append(dates, NewDate(snap))

\* dateMap after the snapshots 1..k
RECURSIVE DateMap(_, _)
DateMap(snapshots, k) ==
    IF k = 0 THEN <<>> ELSE AddToDates(DateMap(snapshots, k - 1), snapshots[k])

\* userDateMap after the snapshots 1..k, its entries in insertion order
RECURSIVE UserDateMap(_, _)
UserDateMap(snapshots, k) ==
    IF k = 0 THEN <<>>
    ELSE LET acc == UserDateMap(snapshots, k - 1)
             snap == snapshots[k]
         IN  IF \E i \in 1..Len(acc) : acc[i].userId = snap.userId
             THEN [i \in 1..Len(acc) |->
                     IF acc[i].userId = snap.userId
                     THEN [acc[i] EXCEPT !.dates = AddToDates(@, snap)]
                     ELSE acc[i]]
             ELSE Append(acc, [userId |-> snap.userId, dates |-> <<NewDate(snap)>>])

DataPoint(d) ==
    [date |-> d.date,
     totalBalance |-> roundCents(d.totalBalance, 1),
     totalCreditLimit |-> roundCents(d.totalCreditLimit, 1),
     utilization |-> UtilizationOf(d.totalBalance, d.totalCreditLimit)]

\* the position a point takes among points sorted by date
RECURSIVE DatePos(_, _, _)
DatePos(sorted, x, i) ==
    IF i > Len(sorted) THEN i
    ELSE IF sorted[i].date > x.date THEN i
    ELSE DatePos(sorted, x, i + 1)

\* mutant: the points stay in the order the dates were first seen
SortByDate_AsInserted(points, k) == SubSeq(points, 1, k)

\* the points 1..k sorted by (a, b) => a.date.localeCompare(b.date)
RECURSIVE SortByDate(_, _)
SortByDate(points, k) ==
    IF k = 0 THEN <<>>
    ELSE LET sorted == SortByDate(points, k - 1)
             i == DatePos(sorted, points[k], 1)
         IN  SubSeq(sorted, 1, i - 1) \o <<points[k]>> \o SubSeq(sorted, i, Len(sorted))

\* mutant: the name is the one of the user's earliest date
UserSeries_NameOfEarliestDate(user) ==
    [userId |-> user.userId,
     userName |-> (CHOOSE d \in {user.dates[k] : k \in 1..Len(user.dates)} :
                      \A k \in 1..Len(user.dates) : d.date <= user.dates[k].date).userName,
     data |-> SortByDate([k \in 1..Len(user.dates) |-> DataPoint(user.dates[k])],
                         Len(user.dates))]

UserSeries(user) ==
    [userId |-> user.userId,
     userName |-> user.dates[1].userName,
     data |-> SortByDate([k \in 1..Len(user.dates) |-> DataPoint(user.dates[k])],
                         Len(user.dates))]

calculateHistoricalUtilization(snapshots) ==
    IF Len(snapshots) = 0 THEN [overall |-> <<>>, perUser |-> <<>>]
    ELSE LET dates == DateMap(snapshots, Len(snapshots))
             users == UserDateMap(snapshots, Len(snapshots))
         IN  [overall |-> SortByDate([k \in 1..Len(dates) |-> DataPoint(dates[k])],
                                     Len(dates)),
              perUser |-> [k \in 1..Len(users) |-> UserSeries(users[k])]]

InitHistory ==
    /\ \E n \in 0..MaxSnapshots :
        \E f \in [1..n -> SnapshotPool \X SnapshotInstants] :
            input = [snapshots |-> Snapshots(n, f)]
    /\ now \in Clocks
    /\ pc = "call"
    /\ result = <<>>
    /\ EngineIdle
    /\ NoCaller
    /\ NoServer

\* a call of calculateHistoricalUtilization
CalculateHistory ==
    /\ pc = "call"
    /\ result' = calculateHistoricalUtilization(input.snapshots)
    /\ pc' = "history"
    /\ UNCHANGED <<input, now, engineVars, callerVars, routeVars>>

NextHistory == CalculateHistory

SpecHistory == InitHistory /\ [][NextHistory]_vars

----------------------------------------------------------------------------
(* Vocabulary of the properties *)

\* at least one month of the running call has been simulated
Simulated == pc \in {"loop", "return", "done"} /\ timeline # <<>>

\* the month the last iteration simulated
LastMonth == Len(timeline)

OneTimeAmount == IF input.oneTimeExtra = <<>> THEN 0 ELSE input.oneTimeExtra[1]

\* the cards that start with a positive balance, and the others
PositiveIds == {input.cards[i].id : i \in {j \in 1..Len(input.cards) : input.cards[j].currentBalance > 0}}
NonPositiveIds == CardIds(input.cards) \ PositiveIds

\* valid input: no negative amount
ValidInput ==
    /\ \A i \in 1..Len(input.cards) :
        /\ input.cards[i].currentBalance >= 0
        /\ input.cards[i].apr >= 0
        /\ input.cards[i].minimumPayment >= 0
    /\ input.monthlyExtraBudget >= 0
    /\ OneTimeAmount >= 0

\* balance of a card in a timeline entry
BalanceIn(entry, id) ==
    LET k == CHOOSE i \in 1..Len(entry.cardBalances) : entry.cardBalances[i].cardId = id
    IN  entry.cardBalances[k].balance

\* balance of a card at the end of month m of the running call (m = 0: initially)
BalanceAt(m, id) ==
    IF m = 0 THEN CardById(input.cards, id).currentBalance ELSE BalanceIn(timeline[m], id)

\* extra the last iteration gave to a card
Received(id) == GetOr(locals.allocated, id, 0)

RECURSIVE ReceivedUpTo(_)
ReceivedUpTo(k) ==
    IF k = 0 THEN 0 ELSE Received(locals.sorted[k]) + ReceivedUpTo(k - 1)

\* a ranks no later than b under the strategy, on the balances the month sorted
RanksBefore(a, b, bal, strategy) ==
    IF strategy = "avalanche"
    THEN a.apr > b.apr \/ (a.apr = b.apr /\ bal[a.id] <= bal[b.id])
    ELSE bal[a.id] < bal[b.id] \/ (bal[a.id] = bal[b.id] /\ a.apr >= b.apr)

RECURSIVE SumOver(_, _)
SumOver(S, f) ==
    IF S = {} THEN 0
    ELSE LET x == CHOOSE y \in S : TRUE IN f[x] + SumOver(S \ {x}, f)

MinimumPaymentOf(id) == CardById(input.cards, id).minimumPayment

Minimums == [id \in CardIds(input.cards) |-> MinimumPaymentOf(id)]

----------------------------------------------------------------------------
(* C1: in every simulated month the extra is handed out greedily in strategy
   order: each card in turn receives min(what is left of the extra, its
   balance after interest and minimum payment).  Amended consequence: a card
   that keeps a positive balance has every card ranked after it without
   extra that month, and, if it received extra itself, every card ranked
   before it at 0. *)
C1_InStrategyOrder ==
    \A j, k \in 1..Len(locals.sorted) :
        j < k => RanksBefore(CardById(input.cards, locals.sorted[j]),
                             CardById(input.cards, locals.sorted[k]),
                             locals.afterMinimums, input.strategy)

C1_EachReceivesMin ==
    /\ \A k \in 1..Len(locals.sorted) :
        LET id == locals.sorted[k] IN
        /\ Received(id) =
               Min(locals.availableExtra - ReceivedUpTo(k - 1), locals.afterMinimums[id])
        /\ balances[id] = locals.afterMinimums[id] - Received(id)
    /\ \A id \in DOMAIN balances :
        (\A k \in 1..Len(locals.sorted) : locals.sorted[k] # id) => Received(id) = 0

\* C1 (amended): strategy order, min(remaining extra, balance) for each card in
\* turn, nothing after a card that keeps a balance, and zero before it when it
\* received extra
C1_GreedyAllocation ==
    Simulated =>
        /\ C1_InStrategyOrder
        /\ C1_EachReceivesMin
        /\ \A k \in 1..Len(locals.sorted) :
            balances[locals.sorted[k]] > 0 =>
                /\ \A j \in (k + 1)..Len(locals.sorted) : Received(locals.sorted[j]) = 0
                /\ Received(locals.sorted[k]) > 0 =>
                       \A j \in 1..(k - 1) : balances[locals.sorted[j]] = 0

(* C1 as claimed: a card that keeps a positive balance has every card ranked
   before it at 0, whether or not the extra reached it. *)
C1_AsClaimed ==
    Simulated =>
        /\ C1_InStrategyOrder
        /\ C1_EachReceivesMin
        /\ \A k \in 1..Len(locals.sorted) :
            balances[locals.sorted[k]] > 0 =>
                /\ \A j \in 1..(k - 1) : balances[locals.sorted[j]] = 0
                /\ \A j \in (k + 1)..Len(locals.sorted) : Received(locals.sorted[j]) = 0

\* the extra paid the first card off and the rest rolled over to the second,
\* which keeps a balance
C1_Witness ==
    /\ Simulated
    /\ Len(locals.sorted) = 2
    /\ Received(locals.sorted[1]) > 0
    /\ balances[locals.sorted[1]] = 0
    /\ Received(locals.sorted[2]) > 0
    /\ balances[locals.sorted[2]] > 0

----------------------------------------------------------------------------
(* C3: in every simulated month m the extra available for allocation is the
   monthly budget, plus the minimum payments of the cards paid off in months
   strictly before m, plus the one-time extra only when m = 1; the minimum of
   a card that reaches zero in month m is not part of month m's extra. *)
C3_AvailableExtra ==
    Simulated =>
        locals.availableExtra =
            input.monthlyExtraBudget
            + SumOver({id \in DOMAIN payoffDates : payoffDates[id] < LastMonth},
                      Minimums)
            + (IF LastMonth = 1 THEN OneTimeAmount ELSE 0)

\* a later month of a call with a one-time extra, after a card with a minimum
\* was paid off, in which another card is paid off
C3_Witness ==
    /\ Simulated
    /\ LastMonth > 1
    /\ OneTimeAmount > 0
    /\ \E id \in DOMAIN payoffDates :
           payoffDates[id] < LastMonth /\ MinimumPaymentOf(id) > 0
    /\ \E id \in DOMAIN payoffDates :
           payoffDates[id] = LastMonth /\ MinimumPaymentOf(id) > 0

----------------------------------------------------------------------------
(* C4: the freed-minimum pool never decreases; it changes only by adding the
   minimum payment of each card in the month that card first reaches zero;
   at every month end the pool is the sum of the minimum payments of the
   cards in the paid-off set. *)
C4_PoolIsSum == freedMinimums = SumOver(paidOffSet, Minimums)

C4_PoolStep ==
    pc = "loop" =>
        /\ freedMinimums' >= freedMinimums
        /\ paidOffSet \subseteq paidOffSet'
        /\ freedMinimums' - freedMinimums =
               SumOver({id \in DOMAIN balances : balances[id] > 0 /\ balances'[id] = 0},
                       Minimums)

\* C4: the pool is always the sum of the minimums of the paid-off set, and each
\* step grows it by exactly the minimums of the cards that step brought to zero
C4_FreedPool == []C4_PoolIsSum /\ [][C4_PoolStep]_vars

\* the pool has grown twice, in different months
C4_Witness ==
    /\ Cardinality(paidOffSet) = 2
    /\ \E a, b \in paidOffSet : payoffDates[a] < payoffDates[b] /\ MinimumPaymentOf(a) > 0
    /\ freedMinimums > 0

----------------------------------------------------------------------------
(* C5: when the 360-month horizon is exhausted before every card that started
   with a positive balance has reached zero, the result has capped = true,
   monthsToDebtFree = 360 and a timeline of exactly 360 entries whose last
   totalDebt is positive; every other result has capped = false. *)
ReachedZero(tl, id) == \E m \in 1..Len(tl) : BalanceIn(tl[m], id) = 0

\* C5: capped, with 360 months and entries and positive final debt, exactly when
\* some originally-positive card never reached zero
C5_CappedFlag ==
    pc = "done" =>
        IF \E id \in PositiveIds : ~ReachedZero(result.timeline, id)
        THEN /\ result.capped = TRUE
             /\ result.monthsToDebtFree = MAX_MONTHS
             /\ Len(result.timeline) = MAX_MONTHS
             /\ result.timeline[MAX_MONTHS].totalDebt > 0
        ELSE result.capped = FALSE

\* a capped result
C5_Witness ==
    /\ pc = "done"
    /\ result.capped = TRUE
    /\ Len(result.timeline) = MAX_MONTHS

----------------------------------------------------------------------------
(* C6: every call ends after simulating at most 360 months: the loop counter
   and the timeline never pass 360, every step of a call moves it strictly
   forward (so a call takes at most 362 steps), and the result has at most
   360 timeline entries and monthsToDebtFree in 0..360, also for portfolios
   that are never paid off. *)
C6_Bounded ==
    /\ month <= MAX_MONTHS
    /\ Len(timeline) <= MAX_MONTHS
    /\ pc = "loop" => Len(timeline) = month - 1
    /\ pc = "done" =>
        /\ Len(result.timeline) <= MAX_MONTHS
        /\ result.monthsToDebtFree \in 0..MAX_MONTHS

\* how far the call has come: entry, the month being simulated, return, done
C6_Rank ==
    CASE pc = "call" -> 0
      [] pc = "loop" -> month
      [] pc = "return" -> MAX_MONTHS + 1
      [] OTHER -> MAX_MONTHS + 2

C6_Progress ==
    /\ pc # "done"
    /\ C6_Rank < C6_Rank'
    /\ pc' = "loop" => Len(timeline') = Len(timeline) + (IF pc = "loop" THEN 1 ELSE 0)

\* C6: at most 360 months are simulated and every step advances the call
C6_BoundedWork == []C6_Bounded /\ [][C6_Progress]_vars

\* a portfolio whose debt only grew has returned
C6_Witness ==
    /\ pc = "done"
    /\ ValidInput
    /\ result.timeline # <<>>
    /\ result.timeline[Len(result.timeline)].totalDebt > result.totalCurrentDebt

----------------------------------------------------------------------------
(* C7, amended: for valid input, every card and every pair of consecutive
   months, the later balance is at most the earlier balance plus the interest
   capitalized in the later month, and at most the earlier balance whenever
   that interest does not exceed the card's minimum payment (month 0 being
   the initial balance). *)
InterestCharged(m, id) ==
    IF BalanceAt(m - 1, id) <= 0 THEN 0
    ELSE roundCents(BalanceAt(m - 1, id) * CardById(input.cards, id).apr, 100 * 100 * 12)

\* C7 (amended): a balance rises by at most the month's interest, and does not
\* rise when the minimum payment covers that interest
C7_BalanceBoundedByInterest ==
    (ValidInput /\ Simulated) =>
        \A id \in CardIds(input.cards) :
            /\ BalanceAt(LastMonth, id) <= BalanceAt(LastMonth - 1, id) + InterestCharged(LastMonth, id)
            /\ InterestCharged(LastMonth, id) <= MinimumPaymentOf(id) =>
                   BalanceAt(LastMonth, id) <= BalanceAt(LastMonth - 1, id)

(* C7 as claimed: for valid input the balance of every card never rises from
   one month to the next. *)
C7_AsClaimed ==
    (ValidInput /\ Simulated) =>
        \A id \in CardIds(input.cards) :
            BalanceAt(LastMonth, id) <= BalanceAt(LastMonth - 1, id)

\* a month whose interest was covered by the minimum payment: the balance fell
C7_Witness ==
    /\ ValidInput
    /\ LastMonth >= 2
    /\ \E id \in PositiveIds :
        /\ InterestCharged(LastMonth, id) > 0
        /\ InterestCharged(LastMonth, id) <= MinimumPaymentOf(id)
        /\ BalanceAt(LastMonth, id) < BalanceAt(LastMonth - 1, id)
        /\ BalanceAt(LastMonth, id) > 0

----------------------------------------------------------------------------
(* C8: when no input card has a positive balance (the empty list included)
   the call returns without simulating a month: empty timeline, zero interest,
   zero months, capped = false, and every instruction has extraPayment 0 and
   no projected payoff date. *)
C8_NoDebtReturn ==
    (pc = "done" /\ PositiveIds = {}) =>
        /\ month = 0
        /\ timeline = <<>>
        /\ result.timeline = <<>>
        /\ result.totalInterestCost = 0
        /\ result.monthsToDebtFree = 0
        /\ result.capped = FALSE
        /\ \A i \in 1..Len(result.paymentInstructions) :
            /\ result.paymentInstructions[i].extraPayment = 0
            /\ result.paymentInstructions[i].projectedPayoffDate = <<>>

\* a call with cards, none of them with a positive balance, has returned
C8_Witness ==
    /\ pc = "done"
    /\ PositiveIds = {}
    /\ Len(input.cards) = 2
    /\ Len(result.paymentInstructions) = 2

----------------------------------------------------------------------------
(* C9: the result has exactly one instruction per input card, in input order;
   a card whose initial balance is zero or negative takes no part in the
   simulation (no balance entry, no extra, never paid off, nothing freed) and
   its instruction has extraPayment 0, paysOffThisMonth false and no projected
   payoff date, also when other cards are simulated. *)
C9_OneInstructionPerCard ==
    /\ \A id \in NonPositiveIds :
        /\ id \notin DOMAIN balances
        /\ id \notin paidOffSet
        /\ id \notin DOMAIN payoffDates
        /\ id \notin DOMAIN month1Extra
        /\ Simulated => (Received(id) = 0 /\ BalanceAt(LastMonth, id) = 0)
    /\ freedMinimums <= SumOver(PositiveIds, Minimums)
    /\ pc = "done" =>
        /\ Len(result.paymentInstructions) = Len(input.cards)
        /\ \A i \in 1..Len(input.cards) :
            LET c == input.cards[i]
                p == result.paymentInstructions[i]
            IN  /\ p.cardId = c.id
                /\ p.minimumPayment = c.minimumPayment
                /\ c.currentBalance <= 0 =>
                       /\ p.extraPayment = 0
                       /\ p.paysOffThisMonth = FALSE
                       /\ p.projectedPayoffDate = <<>>

\* a zero-balance card listed before a card that was simulated and paid off
C9_Witness ==
    /\ pc = "done"
    /\ Len(input.cards) = 2
    /\ input.cards[1].currentBalance <= 0
    /\ input.cards[2].currentBalance > 0
    /\ result.paymentInstructions[2].projectedPayoffDate # <<>>
    /\ result.paymentInstructions[2].extraPayment > 0

----------------------------------------------------------------------------
(* C2: sortCardsByStrategy returns a permutation of its input; avalanche
   orders by descending APR, ties by ascending balance; snowball by ascending
   balance, ties by descending APR; cards that tie on both keep their input
   order (ids number the input positions). *)
C2_Ordered(a, b, strategy) ==
    IF strategy = "avalanche"
    THEN \/ a.apr > b.apr
         \/ a.apr = b.apr /\ a.currentBalance < b.currentBalance
         \/ a.apr = b.apr /\ a.currentBalance = b.currentBalance /\ a.id < b.id
    ELSE \/ a.currentBalance < b.currentBalance
         \/ a.currentBalance = b.currentBalance /\ a.apr > b.apr
         \/ a.currentBalance = b.currentBalance /\ a.apr = b.apr /\ a.id < b.id

\* C2: the output is a permutation of the input in strategy order, ties on both
\* keys in input order
C2_SortedPermutation ==
    pc = "sorted" =>
        /\ Len(result) = Len(input.cards)
        /\ \A i \in 1..Len(input.cards) : \E j \in 1..Len(result) : result[j] = input.cards[i]
        /\ \A j, k \in 1..Len(result) :
            j < k => C2_Ordered(result[j], result[k], input.strategy)

\* three cards were reordered, two of them tying on APR and balance
C2_Witness ==
    /\ pc = "sorted"
    /\ Len(result) = 3
    /\ result # input.cards
    /\ \E j, k \in 1..3 :
        /\ j < k
        /\ result[j].apr = result[k].apr
        /\ result[j].currentBalance = result[k].currentBalance

----------------------------------------------------------------------------
(* C10: simulateScenario runs the engine twice on the same cards: "current"
   with the baseline budget and strategy and no one-time payment, "simulated"
   with budgetChange in place of the budget when supplied, strategyOverride
   in place of the strategy when supplied, and oneTimePayment available in
   month 1 only; interestSaved and monthsSaved are current minus simulated. *)
C10_Budget ==
    IF phase = "simulated" /\ scenario.budgetChange # <<>>
    THEN scenario.budgetChange[1] ELSE scenario.monthlyExtraBudget

C10_Strategy ==
    IF phase = "simulated" /\ scenario.strategyOverride # <<>>
    THEN scenario.strategyOverride[1] ELSE scenario.strategy

C10_OneTime ==
    IF phase = "simulated" /\ scenario.oneTimePayment # <<>> /\ LastMonth = 1
    THEN scenario.oneTimePayment[1] ELSE 0

\* C10: the inputs of the two engine calls, the one-time payment in month 1
\* only, and the two deltas
C10_ScenarioRuns ==
    /\ phase \in {"current", "simulated"} =>
        /\ input.cards = scenario.cards
        /\ input.monthlyExtraBudget = C10_Budget
        /\ input.strategy = C10_Strategy
        /\ Simulated =>
            /\ locals.availableExtra = C10_Budget + C10_OneTime + (freedMinimums - SumOver(locals.newly, Minimums))
            /\ C1_InStrategyOrder
        /\ pc = "done" => result.monthlyExtraBudget = C10_Budget /\ result.strategy = C10_Strategy
    /\ phase = "returned" =>
        /\ simulation.current.totalInterestCost = current.totalInterestCost
        /\ simulation.current.monthsToDebtFree = current.monthsToDebtFree
        /\ simulation.simulated.totalInterestCost = result.totalInterestCost
        /\ simulation.simulated.monthsToDebtFree = result.monthsToDebtFree
        /\ simulation.interestSaved = current.totalInterestCost - result.totalInterestCost
        /\ simulation.monthsSaved = current.monthsToDebtFree - result.monthsToDebtFree
        /\ current.monthlyExtraBudget = scenario.monthlyExtraBudget
        /\ current.strategy = scenario.strategy

\* all three overrides supplied, the budget replaced by 0, and the outcome differs
C10_Witness ==
    /\ phase = "returned"
    /\ scenario.budgetChange = <<0>>
    /\ scenario.oneTimePayment # <<>>
    /\ scenario.strategyOverride # <<>>
    /\ scenario.strategyOverride[1] # scenario.strategy
    /\ simulation.monthsSaved < 0
    /\ simulation.interestSaved < 0

\* C11: calculatePayoffPlan and simulateScenario leave the caller's cards as
\* they were passed (order, balance, APR, minimum), and the 'current' summary
\* of simulateScenario is the summary of a direct calculatePayoffPlan call
\* with the same cards, the baseline budget and the baseline strategy.
C11_CallerCards ==
    phase \in {"current", "simulated", "returned"} => input.cards = scenario.cards

C11_DirectCall ==
    calculatePayoffPlan([cards |-> scenario.cards,
                         monthlyExtraBudget |-> scenario.monthlyExtraBudget,
                         strategy |-> scenario.strategy,
                         oneTimeExtra |-> <<>>], now)

C11_CurrentSummary ==
    phase = "returned" =>
        /\ simulation.current.totalInterestCost = C11_DirectCall.totalInterestCost
        /\ simulation.current.monthsToDebtFree = C11_DirectCall.monthsToDebtFree
        /\ simulation.current.debtFreeDate = C11_DirectCall.debtFreeDate

C11_CardsUntouched == C11_CallerCards /\ C11_CurrentSummary

C11_Witness ==
    /\ phase = "returned"
    /\ Len(scenario.cards) = 2
    /\ scenario.oneTimePayment # <<>>
    /\ scenario.budgetChange # <<>>
    /\ scenario.strategyOverride # <<>>
    /\ simulation.current.monthsToDebtFree > 1
    /\ simulation.simulated # simulation.current

\* C12: GET /plan (with or without ?budget=), GET /timeline and POST /simulate
\* leave the stored monthlyExtraBudget, the stored payoffStrategy and every
\* stored card as they were, and a request without an override is answered
\* from the stored budget whatever was requested before.
C12_StoredUnchanged ==
    /\ db'.household = db.household
    /\ Len(db'.cards) = Len(db.cards)
    /\ \A k \in 1..Len(db.cards) : db'.cards[k] = db.cards[k]

C12_StoredBudgetUsed ==
    /\ request'.kind \in {"plan", "timeline"}
    /\ request'.budget = <<>>
    /\ response'.status = 200
    /\ Len(SelectSeq(db.cards, IsActive)) > 0
    => LET direct == calculatePayoffPlan(
                        [cards |-> getHouseholdCards(db),
                         monthlyExtraBudget |-> db.household[1].monthlyExtraBudget,
                         strategy |-> db.household[1].payoffStrategy,
                         oneTimeExtra |-> <<>>], now)
       IN  /\ request'.kind = "plan" =>
                /\ response'.body.plan[1].monthlyExtraBudget = db.household[1].monthlyExtraBudget
                /\ response'.body.plan[1].totalInterestCost = direct.totalInterestCost
                /\ response'.body.plan[1].monthsToDebtFree = direct.monthsToDebtFree
           /\ request'.kind = "timeline" => response'.body.timeline = direct.timeline

C12_ReadOnly == [][C12_StoredUnchanged /\ C12_StoredBudgetUsed]_vars

C12_Witness ==
    /\ request.kind = "plan"
    /\ request.budget = <<Num(65500)>>
    /\ response.status = 200
    /\ db.household[1].monthlyExtraBudget = 20000
    /\ response.body.plan # <<>>
    /\ response.body.plan[1].monthlyExtraBudget = 65500

\* C13: two calls of calculatePayoffPlan on the same input return the same
\* instructions (amounts and flags), the same timeline (balances and
\* interest), the same totalInterestCost, monthsToDebtFree and capped flag:
\* nothing of the first call reaches the second.  The two calls are the ones
\* simulateScenario makes when no parameter differs from the baseline.
C13_SameInput ==
    /\ scenario.oneTimePayment = <<>>
    /\ scenario.budgetChange = <<>>
    /\ scenario.strategyOverride \in {<<>>, <<scenario.strategy>>}

C13_SameInstructions(p, q) ==
    /\ Len(p) = Len(q)
    /\ \A k \in 1..Len(p) :
        /\ p[k].cardId = q[k].cardId
        /\ p[k].minimumPayment = q[k].minimumPayment
        /\ p[k].extraPayment = q[k].extraPayment
        /\ p[k].newBalanceAfterPayment = q[k].newBalanceAfterPayment
        /\ p[k].paysOffThisMonth = q[k].paysOffThisMonth

C13_SameTimeline(p, q) ==
    /\ Len(p) = Len(q)
    /\ \A k \in 1..Len(p) :
        /\ p[k].cardBalances = q[k].cardBalances
        /\ p[k].totalDebt = q[k].totalDebt
        /\ p[k].totalInterestThisMonth = q[k].totalInterestThisMonth
        /\ p[k].totalInterestCumulative = q[k].totalInterestCumulative

C14_EntryNonNegative(e) ==
    /\ \A k \in 1..Len(e.cardBalances) : e.cardBalances[k].balance >= 0
    /\ e.totalDebt >= 0
    /\ e.totalInterestThisMonth >= 0
    /\ e.totalInterestCumulative >= 0

C14_NonNegative ==
    ValidInput =>
        /\ Simulated => C14_EntryNonNegative(timeline[LastMonth])
        /\ pc = "done" =>
            /\ \A m \in 1..Len(result.timeline) : C14_EntryNonNegative(result.timeline[m])
            /\ result.totalInterestCost >= 0
            /\ \A k \in 1..Len(result.paymentInstructions) :
                /\ result.paymentInstructions[k].extraPayment >= 0
                /\ result.paymentInstructions[k].newBalanceAfterPayment >= 0

\* a card is paid off in month 1 with interest and extra, another is not, and a
\* one-time payment is part of the extra
C14_Witness ==
    /\ ValidInput
    /\ pc = "done"
    /\ Len(result.timeline) > 1
    /\ result.totalInterestCost > 0
    /\ \E k \in 1..Len(result.paymentInstructions) :
        /\ result.paymentInstructions[k].paysOffThisMonth
        /\ result.paymentInstructions[k].extraPayment > 0
        /\ result.paymentInstructions[k].newBalanceAfterPayment = 0
    /\ \E k \in 1..Len(result.paymentInstructions) :
        result.paymentInstructions[k].newBalanceAfterPayment > 0

\* C15: a portfolio of positive-balance cards is ordered differently by
\* avalanche and by snowball exactly when some card has both a higher APR and
\* a higher balance than another card; where the orderings differ the
\* month-1 extra allocations of the two strategies can differ too.
C15_OtherOrdering ==
    sortCardsByStrategy(input.cards,
                        IF input.strategy = "avalanche" THEN "snowball" ELSE "avalanche")

C15_Crossed ==
    \E i, j \in 1..Len(input.cards) :
        /\ input.cards[i].apr > input.cards[j].apr
        /\ input.cards[i].currentBalance > input.cards[j].currentBalance

C15_DifferIffCrossed ==
    pc = "sorted" => ((result # C15_OtherOrdering) <=> C15_Crossed)

\* C15 as stated: cards whose APRs differ and whose balances differ are always
\* ordered differently by the two strategies
C15_AsClaimed ==
    /\ pc = "sorted"
    /\ \A i \in 1..Len(input.cards) : input.cards[i].currentBalance > 0
    /\ \E i, j \in 1..Len(input.cards) :
        /\ input.cards[i].apr # input.cards[j].apr
        /\ input.cards[i].currentBalance # input.cards[j].currentBalance
    => result # C15_OtherOrdering

\* the extra each card is allocated in month 1 of a plan for the sorted cards
C15_Month1Extra(strategy) ==
    LET in == [cards |-> input.cards, monthlyExtraBudget |-> 20000,
               strategy |-> strategy, oneTimeExtra |-> <<>>]
    IN  MonthBody(in, now, InitialState(in), 1).month1Extra

C15_Witness ==
    /\ pc = "sorted"
    /\ Len(input.cards) = 2
    /\ C15_Crossed
    /\ result # C15_OtherOrdering
    /\ C15_Month1Extra("avalanche") # C15_Month1Extra("snowball")

\* u tenths of a percent is balance / limit x 100 rounded to one decimal
\* (half up) when the limit is positive, and 0 otherwise
IsUtilization(u, balance, limit) ==
    IF limit > 0
    THEN /\ -limit <= 2 * (1000 * balance - limit * u)
         /\ 2 * (1000 * balance - limit * u) < limit
    ELSE u = 0

\* the cards of an owner, and the balances and limits of the cards by position
CardsOf(userId) == {k \in 1..Len(input.cards) : input.cards[k].userId = userId}
BalanceOfCard == [k \in 1..Len(input.cards) |-> input.cards[k].currentBalance]
LimitOfCard == [k \in 1..Len(input.cards) |-> input.cards[k].creditLimit]

\* C16: per card, per user and for the household, utilization is
\* balance / limit x 100 rounded to one decimal when the limit is positive
\* and exactly 0 when the limit is <= 0; it is always a number.
C16_Utilization ==
    pc = "utilization" =>
        /\ \A k \in 1..Len(result.perCard) :
            /\ result.perCard[k].utilization \in Int
            /\ IsUtilization(result.perCard[k].utilization,
                              input.cards[k].currentBalance, input.cards[k].creditLimit)
        /\ \A k \in 1..Len(result.perUser) :
            /\ result.perUser[k].utilization \in Int
            /\ IsUtilization(result.perUser[k].utilization,
                              SumOver(CardsOf(result.perUser[k].userId), BalanceOfCard),
                              SumOver(CardsOf(result.perUser[k].userId), LimitOfCard))
        /\ result.household.utilization \in Int
        /\ IsUtilization(result.household.utilization,
                          SumOver(DOMAIN BalanceOfCard, BalanceOfCard),
                          SumOver(DOMAIN LimitOfCard, LimitOfCard))

\* a card without a limit, a user whose limits sum to 0, a ratio that rounds up
\* (29.96% to 30.0) and a household ratio that is not a whole tenth
C16_Witness ==
    /\ pc = "utilization"
    /\ \E k \in 1..Len(result.perCard) :
        result.perCard[k].creditLimit = 0 /\ result.perCard[k].balance > 0
    /\ \E k \in 1..Len(result.perUser) :
        result.perUser[k].totalCreditLimit = 0 /\ result.perUser[k].utilization = 0
    /\ \E k \in 1..Len(result.perCard) :
        result.perCard[k].balance = 2996 /\ result.perCard[k].utilization = 300
    /\ result.household.totalCreditLimit > 0
    /\ (1000 * result.household.totalBalance) % result.household.totalCreditLimit # 0

\* the band of a utilization of u tenths of a percent
BandOf(u) ==
    CASE 0 <= u /\ u < 100 -> "excellent"
      [] 100 <= u /\ u < 300 -> "good"
      [] 300 <= u /\ u < 500 -> "fair"
      [] 500 <= u /\ u < 750 -> "poor"
      [] 750 <= u -> "very_poor"

\* C17: every utilization is banded on its rounded value by one table,
\* [0,10) excellent, [10,30) good, [30,50) fair, [50,75) poor, [75,inf)
\* very_poor, per card, per user and for the household, and each milestone
\* threshold t carries the band of a utilization of exactly t.
C17_Bands ==
    /\ pc = "utilization" =>
        /\ \A k \in 1..Len(result.perCard) :
            result.perCard[k].rating = BandOf(result.perCard[k].utilization)
        /\ \A k \in 1..Len(result.perUser) :
            result.perUser[k].rating = BandOf(result.perUser[k].utilization)
        /\ result.household.rating = BandOf(result.household.utilization)
    /\ pc = "milestones" /\ Len(input.cards) > 0 =>
        \A k \in 1..Len(result.milestones[1].milestones) :
            result.milestones[1].milestones[k].rating =
                BandOf(10 * result.milestones[1].milestones[k].threshold)

\* 293.00 of 1000.00 is 29.3 and good, 8800.00 of 10000.00 is 88.0 and
\* very_poor, and a utilization on a threshold belongs to the band above it
C17_Witness ==
    /\ pc = "utilization"
    /\ \E k \in 1..Len(result.perCard) :
        /\ result.perCard[k].balance = 29300
        /\ result.perCard[k].creditLimit = 100000
        /\ result.perCard[k].utilization = 293
        /\ result.perCard[k].rating = "good"
    /\ \E k \in 1..Len(result.perUser) :
        /\ result.perUser[k].totalBalance = 880000
        /\ result.perUser[k].totalCreditLimit = 1000000
        /\ result.perUser[k].utilization = 880
        /\ result.perUser[k].rating = "very_poor"
    /\ result.household.rating \in {"poor", "very_poor"}

\* C18: one per-user record per distinct owner; its totals are the sums over
\* that owner's cards and its utilization comes from the two sums; the
\* household sums all cards, so the per-user balances, limits and card
\* counts add up to the household's.
C18_PerUser ==
    pc = "utilization" =>
        /\ {result.perUser[k].userId : k \in 1..Len(result.perUser)}
             = {input.cards[k].userId : k \in 1..Len(input.cards)}
        /\ \A j, k \in 1..Len(result.perUser) :
            result.perUser[j].userId = result.perUser[k].userId => j = k
        /\ \A k \in 1..Len(result.perUser) :
            LET mine == CardsOf(result.perUser[k].userId) IN
            /\ result.perUser[k].totalBalance = SumOver(mine, BalanceOfCard)
            /\ result.perUser[k].totalCreditLimit = SumOver(mine, LimitOfCard)
            /\ result.perUser[k].cardCount = Cardinality(mine)
            /\ IsUtilization(result.perUser[k].utilization,
                              SumOver(mine, BalanceOfCard), SumOver(mine, LimitOfCard))
        /\ result.household.totalBalance = SumOver(DOMAIN BalanceOfCard, BalanceOfCard)
        /\ result.household.totalCreditLimit = SumOver(DOMAIN LimitOfCard, LimitOfCard)
        /\ result.household.cardCount = Len(input.cards)
        /\ SumSeq([k \in 1..Len(result.perUser) |-> result.perUser[k].totalBalance])
             = result.household.totalBalance
        /\ SumSeq([k \in 1..Len(result.perUser) |-> result.perUser[k].totalCreditLimit])
             = result.household.totalCreditLimit
        /\ SumSeq([k \in 1..Len(result.perUser) |-> result.perUser[k].cardCount])
             = result.household.cardCount

\* two owners, the cards of one of them apart in the input, and a per-user
\* utilization that no card of that user has
C18_Witness ==
    /\ pc = "utilization"
    /\ Len(input.cards) = 3
    /\ input.cards[1].userId = input.cards[3].userId
    /\ input.cards[1].userId # input.cards[2].userId
    /\ Len(result.perUser) = 2
    /\ result.perUser[1].cardCount = 2
    /\ \A k \in 1..3 : result.perCard[k].utilization # result.perUser[1].utilization

\* the dollars needed for a threshold of t percent: max(0, balance - t% x
\* limit) rounded to cents (half up)
IsDollarsNeeded(d, balance, limit, t) ==
    IF 100 * balance - t * limit <= 0 THEN d = 0
    ELSE /\ -100 <= 2 * (100 * balance - t * limit - 100 * d)
         /\ 2 * (100 * balance - t * limit - 100 * d) < 100

AggregateBalance == SumOver(DOMAIN BalanceOfCard, BalanceOfCard)
AggregateLimit == SumOver(DOMAIN LimitOfCard, LimitOfCard)

C19_FourThresholds ==
    /\ Len(result.milestones[1].milestones) = 4
    /\ [k \in 1..4 |-> result.milestones[1].milestones[k].threshold] = <<75, 50, 30, 10>>

\* C19: calculateMilestones returns the thresholds 75, 50, 30, 10 in that
\* order; for a positive aggregate limit each threshold t has dollarsNeeded
\* = max(0, balance - t% x limit) rounded to cents and achieved =
\* (currentUtilization <= t); for a limit <= 0 the utilization is 0 and every
\* threshold has dollarsNeeded 0 and achieved true.
C19_Milestones ==
    pc = "milestones" /\ Len(input.cards) > 0 =>
        LET r == result.milestones[1] IN
        /\ C19_FourThresholds
        /\ IsUtilization(r.currentUtilization, AggregateBalance, AggregateLimit)
        /\ \A k \in 1..4 :
            IF AggregateLimit > 0
            THEN /\ IsDollarsNeeded(r.milestones[k].dollarsNeeded, AggregateBalance,
                                     AggregateLimit, r.milestones[k].threshold)
                 /\ r.milestones[k].achieved
                      = (r.currentUtilization <= 10 * r.milestones[k].threshold)
            ELSE /\ r.milestones[k].dollarsNeeded = 0
                 /\ r.milestones[k].achieved

\* C19 as stated: the formula for dollarsNeeded holds for every aggregate
\* balance and limit
C19_AsClaimed ==
    pc = "milestones" /\ Len(input.cards) > 0 =>
        LET r == result.milestones[1] IN
        /\ C19_FourThresholds
        /\ \A k \in 1..4 :
            /\ IsDollarsNeeded(r.milestones[k].dollarsNeeded, AggregateBalance,
                                AggregateLimit, r.milestones[k].threshold)
            /\ r.milestones[k].achieved
                 = (r.currentUtilization <= 10 * r.milestones[k].threshold)

\* 8800.00 of 10000.00: utilization 88.0, and the 30% milestone needs 5800.00
\* and is not achieved
C19_Witness ==
    /\ pc = "milestones"
    /\ Len(input.cards) = 2
    /\ AggregateBalance = 880000
    /\ AggregateLimit = 1000000
    /\ result.milestones[1].currentUtilization = 880
    /\ result.milestones[1].milestones[3].threshold = 30
    /\ result.milestones[1].milestones[3].dollarsNeeded = 580000
    /\ ~result.milestones[1].milestones[3].achieved

\* the calendar day (UTC) of the snapshot at a position of the input, the
\* positions of a user's snapshots, and the amounts by position
DayOfSnapshot(i) == input.snapshots[i].snapshotDate \div 24
AllSnapshots == 1..Len(input.snapshots)
SnapshotsOf(userId) == {i \in AllSnapshots : input.snapshots[i].userId = userId}
BalanceOfSnapshot == [i \in AllSnapshots |-> input.snapshots[i].balance]
LimitOfSnapshot == [i \in AllSnapshots |-> input.snapshots[i].creditLimit]

\* series has one point per distinct day of the snapshots at the positions S,
\* in strictly ascending date order, each with the sums of S's snapshots of
\* that day
IsSeriesOf(series, S) ==
    /\ {series[k].date : k \in 1..Len(series)} = {DayOfSnapshot(i) : i \in S}
    /\ \A k \in 1..Len(series) - 1 : series[k].date < series[k + 1].date
    /\ \A k \in 1..Len(series) :
        LET thatDay == {i \in S : DayOfSnapshot(i) = series[k].date} IN
        /\ series[k].totalBalance = SumOver(thatDay, BalanceOfSnapshot)
        /\ series[k].totalCreditLimit = SumOver(thatDay, LimitOfSnapshot)

\* the amount a user's series reports for a day, 0 when it has no point then
OnDay(series, day, field) ==
    SumSeq([k \in 1..Len(series) |-> IF series[k].date = day THEN series[k][field] ELSE 0])

\* C20: the household series and each user's series have exactly one point
\* per distinct calendar day of that scope's snapshots, in strictly ascending
\* date order whatever the input order; a point's totals are the sums of the
\* scope's snapshots of that day, so each day the per-user totals add up to
\* the household's.
C20_History ==
    pc = "history" =>
        /\ IsSeriesOf(result.overall, AllSnapshots)
        /\ {result.perUser[k].userId : k \in 1..Len(result.perUser)}
             = {input.snapshots[i].userId : i \in AllSnapshots}
        /\ \A j, k \in 1..Len(result.perUser) :
            result.perUser[j].userId = result.perUser[k].userId => j = k
        /\ \A k \in 1..Len(result.perUser) :
            IsSeriesOf(result.perUser[k].data, SnapshotsOf(result.perUser[k].userId))
        /\ \A p \in 1..Len(result.overall) :
            /\ result.overall[p].totalBalance =
                SumSeq([k \in 1..Len(result.perUser) |->
                    OnDay(result.perUser[k].data, result.overall[p].date, "totalBalance")])
            /\ result.overall[p].totalCreditLimit =
                SumSeq([k \in 1..Len(result.perUser) |->
                    OnDay(result.perUser[k].data, result.overall[p].date, "totalCreditLimit")])

\* the input is not in date order, two snapshots of one day with different
\* times and different users are merged for the household, and a user has
\* points on two days
C20_Witness ==
    /\ pc = "history"
    /\ Len(input.snapshots) = 3
    /\ input.snapshots[1].snapshotDate > input.snapshots[2].snapshotDate
    /\ DayOfSnapshot(2) = DayOfSnapshot(3)
    /\ input.snapshots[2].snapshotDate # input.snapshots[3].snapshotDate
    /\ input.snapshots[2].userId # input.snapshots[3].userId
    /\ DayOfSnapshot(1) # DayOfSnapshot(2)
    /\ Len(result.overall) = 2
    /\ Len(result.perUser) = 2
    /\ \E k \in 1..2 : Len(result.perUser[k].data) = 2

\* the position of a user's first snapshot in input order
FirstSnapshotOf(userId) ==
    CHOOSE i \in SnapshotsOf(userId) : \A j \in SnapshotsOf(userId) : i <= j

\* C21: the userName of each per-user series is the name carried by the first
\* snapshot of that user in input order, whatever name later snapshots of the
\* user carry, on the same date or on another.
C21_FirstSeenName ==
    pc = "history" =>
        \A k \in 1..Len(result.perUser) :
            result.perUser[k].userName =
                input.snapshots[FirstSnapshotOf(result.perUser[k].userId)].userName

\* the user's first snapshot is named Ann, a later one of an earlier day is
\* named Annie, and so is a later one of the same day
C21_Witness ==
    /\ pc = "history"
    /\ Len(input.snapshots) = 3
    /\ \A i \in 1..3 : input.snapshots[i].userId = 1
    /\ input.snapshots[1].userName = "Ann"
    /\ input.snapshots[2].userName = "Annie"
    /\ input.snapshots[3].userName = "Annie"
    /\ DayOfSnapshot(2) < DayOfSnapshot(1)
    /\ DayOfSnapshot(3) = DayOfSnapshot(1)
    /\ result.perUser[1].userName = "Ann"
    /\ result.perUser[1].data[1].date = DayOfSnapshot(2)

\* C22: a card that entered the paid-off set stays in it for the rest of the
\* run, its payoff month never changes, later months charge it no interest
\* and pay it nothing, and its balance is 0 in every timeline entry from its
\* payoff month on.
C22_PaidOffState ==
    /\ pc \in {"loop", "return", "done"} =>
        \A id \in paidOffSet :
            /\ id \in DOMAIN payoffDates
            /\ payoffDates[id] \in 1..LastMonth
            /\ BalanceAt(LastMonth, id) = 0
            /\ balances[id] = 0
    /\ pc = "done" =>
        \A id \in paidOffSet :
            \A m \in 1..Len(result.timeline) :
                (BalanceIn(result.timeline[m], id) = 0) <=> (m >= payoffDates[id])

C22_PaidOffStep ==
    pc = "loop" =>
        /\ paidOffSet \subseteq paidOffSet'
        /\ SubSeq(timeline', 1, Len(timeline)) = timeline
        /\ \A id \in paidOffSet :
            /\ payoffDates'[id] = payoffDates[id]
            /\ locals'.afterInterest[id] = 0
            /\ locals'.afterMinimums[id] = 0
            /\ GetOr(locals'.allocated, id, 0) = 0
            /\ id \notin locals'.newly

C22_WriteOnce == []C22_PaidOffState /\ [][C22_PaidOffStep]_vars

\* a card with a minimum payment was paid off at least two months ago while
\* another card still carries a balance and receives extra
C22_Witness ==
    /\ pc = "loop"
    /\ \E id \in paidOffSet :
        /\ payoffDates[id] + 2 <= LastMonth
        /\ MinimumPaymentOf(id) > 0
        /\ CardById(input.cards, id).apr > 0
    /\ \E id \in DOMAIN balances : balances[id] > 0 /\ Received(id) > 0

\* C23: the timeline entries carry the month indices 1..n in order.  When the
\* plan is not capped, n = monthsToDebtFree is the first month at whose end
\* every originally-positive card is at 0: the last entry has totalDebt 0,
\* every earlier entry has totalDebt > 0, and no month follows it.
C23_DebtFreeAt(tl, m) == \A id \in PositiveIds : BalanceIn(tl[m], id) = 0

C23_Indices ==
    /\ Simulated => timeline[LastMonth].month = LastMonth
    /\ (pc = "loop" /\ timeline # <<>>) =>
        /\ timeline[LastMonth].totalDebt > 0
        /\ ~C23_DebtFreeAt(timeline, LastMonth)
    /\ pc = "done" =>
        /\ \A m \in 1..Len(result.timeline) : result.timeline[m].month = m
        /\ ~result.capped =>
            LET n == result.monthsToDebtFree IN
            /\ n = Len(result.timeline)
            /\ \A m \in 1..n :
                /\ (result.timeline[m].totalDebt = 0) <=> (m = n)
                /\ result.timeline[m].totalDebt >= 0
                /\ C23_DebtFreeAt(result.timeline, m) <=> (m = n)

C23_Append ==
    pc = "loop" =>
        /\ Len(timeline') = Len(timeline) + 1
        /\ SubSeq(timeline', 1, Len(timeline)) = timeline
        /\ timeline'[Len(timeline')].month = month

C23_Timeline == []C23_Indices /\ [][C23_Append]_vars

\* an uncapped plan of at least three months for two cards in debt that are
\* paid off in different months
C23_Witness ==
    /\ pc = "done"
    /\ ~result.capped
    /\ result.monthsToDebtFree >= 3
    /\ Cardinality(PositiveIds) = 2
    /\ \E id \in PositiveIds : payoffDates[id] < result.monthsToDebtFree

\* C24: every month charges each card with a positive balance at the start
\* of the month round_cents(balance * apr / 100 / 12), added before any
\* payment; totalInterestThisMonth is the sum of the charges,
\* totalInterestCumulative their running sum, which never decreases, and
\* totalInterestCost is the cumulative interest of the last timeline entry.
C24_Charges == [id \in PositiveIds |-> InterestCharged(LastMonth + 1, id)]

C24_Charged ==
    pc = "loop" =>
        LET entry == timeline'[Len(timeline')] IN
        /\ \A id \in PositiveIds :
            /\ locals'.afterInterest[id] = BalanceAt(LastMonth, id) + C24_Charges[id]
            /\ locals'.afterMinimums[id] =
                   locals'.afterInterest[id]
                     - Min(MinimumPaymentOf(id), locals'.afterInterest[id])
        /\ entry.totalInterestThisMonth = SumOver(PositiveIds, C24_Charges)
        /\ entry.totalInterestCumulative =
               totalInterestCumulative + SumOver(PositiveIds, C24_Charges)
        /\ totalInterestCumulative' = entry.totalInterestCumulative
        /\ totalInterestCumulative' >= totalInterestCumulative

C24_Cumulative ==
    /\ Simulated => timeline[LastMonth].totalInterestCumulative = totalInterestCumulative
    /\ pc = "done" =>
        /\ result.totalInterestCost =
               IF result.timeline = <<>> THEN 0
               ELSE result.timeline[Len(result.timeline)].totalInterestCumulative
        /\ \A m \in 1..Len(result.timeline) :
               result.timeline[m].totalInterestCumulative =
                   result.timeline[m].totalInterestThisMonth
                     + (IF m = 1 THEN 0 ELSE result.timeline[m - 1].totalInterestCumulative)

C24_Interest == []C24_Cumulative /\ [][C24_Charged]_vars

\* a month after the first in which two cards are charged different amounts,
\* one of them rounded, and a paid-down balance is what is charged
C24_Witness ==
    /\ pc = "loop"
    /\ LastMonth >= 2
    /\ \E a, b \in PositiveIds :
        /\ InterestCharged(LastMonth, a) > InterestCharged(LastMonth, b)
        /\ InterestCharged(LastMonth, b) > 0
        /\ (BalanceAt(LastMonth - 1, a) * CardById(input.cards, a).apr) % 120000 # 0
        /\ BalanceAt(LastMonth - 1, a) < BalanceAt(0, a)
    /\ timeline[LastMonth].totalInterestCumulative > timeline[LastMonth].totalInterestThisMonth

\* C25: the month applies interest, then the minimum payment, then the extra:
\* for every originally-positive card the month-1 instruction has
\* newBalanceAfterPayment = (initial balance + month-1 interest)
\* - min(minimumPayment, balance after interest) - extraPayment, not below 0.
C25_AfterInterest(id) == BalanceAt(0, id) + InterestCharged(1, id)

C25_AfterMinimum(id) ==
    C25_AfterInterest(id) - Min(MinimumPaymentOf(id), C25_AfterInterest(id))

C25_Max0(x) == IF x < 0 THEN 0 ELSE x

C25_MonthOne ==
    /\ (Simulated /\ LastMonth = 1) =>
        \A id \in PositiveIds :
            /\ locals.afterInterest[id] = C25_AfterInterest(id)
            /\ locals.afterMinimums[id] = C25_AfterMinimum(id)
            /\ Received(id) = GetOr(month1Extra, id, 0)
            /\ BalanceAt(1, id) = C25_Max0(C25_AfterMinimum(id) - Received(id))
    /\ (pc = "done" /\ result.timeline # <<>>) =>
        \A k \in 1..Len(result.paymentInstructions) :
            LET ins == result.paymentInstructions[k] IN
            ins.cardId \in PositiveIds =>
                /\ ins.newBalanceAfterPayment =
                       C25_Max0(C25_AfterMinimum(ins.cardId) - ins.extraPayment)
                /\ ins.newBalanceAfterPayment = BalanceIn(result.timeline[1], ins.cardId)
                /\ ins.paysOffThisMonth <=> (ins.newBalanceAfterPayment = 0)

\* the worked example: 1000.00 at 24% with a 25.00 minimum and a 200.00 budget
\* goes to 1020.00, 995.00 and 795.00 and is not paid off in month 1
C25_Witness ==
    /\ pc = "done"
    /\ Len(input.cards) = 1
    /\ input.cards[1].currentBalance = 100000
    /\ input.cards[1].apr = 2400
    /\ input.cards[1].minimumPayment = 2500
    /\ input.monthlyExtraBudget = 20000
    /\ input.oneTimeExtra = <<>>
    /\ C25_AfterInterest(1) = 102000
    /\ C25_AfterMinimum(1) = 99500
    /\ result.paymentInstructions[1].extraPayment = 20000
    /\ result.paymentInstructions[1].newBalanceAfterPayment = 79500
    /\ result.paymentInstructions[1].paysOffThisMonth = FALSE

\* C26: each month orders the allocation by that month's balances after
\* interest and minimum payments, over the cards that still have a positive
\* balance and are not paid off; under snowball the first card to receive
\* extra has the smallest such balance of the month, whatever the initial
\* balances were.
C26_Candidates ==
    {id \in PositiveIds :
        /\ locals.afterMinimums[id] > 0
        /\ ~(id \in DOMAIN payoffDates /\ payoffDates[id] < LastMonth)}

C26_OrderOfMonth ==
    Simulated =>
        /\ {locals.sorted[k] : k \in 1..Len(locals.sorted)} = C26_Candidates
        /\ Len(locals.sorted) = Cardinality(C26_Candidates)
        /\ \A i, j \in 1..Len(locals.sorted) :
            i < j =>
                RanksBefore(CardById(input.cards, locals.sorted[i]),
                            CardById(input.cards, locals.sorted[j]),
                            locals.afterMinimums, input.strategy)
        /\ (input.strategy = "snowball" /\ locals.availableExtra > 0) =>
            \A id \in C26_Candidates :
                /\ Received(id) > 0 =>
                       Received(locals.sorted[1]) > 0
                /\ locals.afterMinimums[locals.sorted[1]] <= locals.afterMinimums[id]

\* under snowball the card that receives the extra first this month started
\* with the larger balance of the two
C26_Witness ==
    /\ Simulated
    /\ input.strategy = "snowball"
    /\ Len(locals.sorted) = 2
    /\ Received(locals.sorted[1]) > 0
    /\ locals.afterMinimums[locals.sorted[1]] < locals.afterMinimums[locals.sorted[2]]
    /\ BalanceAt(0, locals.sorted[1]) > BalanceAt(0, locals.sorted[2])

\* C27: each month hands out min(available extra, sum of the positive balances
\* left after the minimum payments); what is left over is discarded and does
\* not raise a later month's available extra; the month-1 instructions'
\* extraPayment sum to at most monthlyExtraBudget + oneTimeExtra.
C27_Owed ==
    [id \in PositiveIds |->
        IF locals.afterMinimums[id] > 0 THEN locals.afterMinimums[id] ELSE 0]

C27_Handed == [id \in PositiveIds |-> Received(id)]

C27_ExtraPayments(ins) ==
    SumSeq([k \in 1..Len(ins) |-> ins[k].extraPayment])

C27_Allocated ==
    /\ Simulated =>
        /\ SumOver(PositiveIds, C27_Handed) =
               Min(locals.availableExtra, SumOver(PositiveIds, C27_Owed))
        /\ locals.leftover = locals.availableExtra - SumOver(PositiveIds, C27_Handed)
        /\ DOMAIN locals.allocated \subseteq PositiveIds
    /\ pc = "done" =>
        C27_ExtraPayments(result.paymentInstructions)
            <= input.monthlyExtraBudget + OneTimeAmount

C27_NotCarried ==
    pc = "loop" =>
        locals'.availableExtra =
            input.monthlyExtraBudget + SumOver(paidOffSet, Minimums)
            + (IF timeline = <<>> THEN OneTimeAmount ELSE 0)

C27_ExtraSpent == []C27_Allocated /\ [][C27_NotCarried]_vars

\* the last month of a plan of several months leaves extra over after paying
\* off the remaining card, and month 1 handed its whole extra, one-time
\* payment included, to two cards
C27_Witness ==
    /\ pc = "done"
    /\ LastMonth >= 2
    /\ locals.leftover > 0
    /\ SumOver(PositiveIds, C27_Handed) > 0
    /\ OneTimeAmount > 0
    /\ C27_ExtraPayments(result.paymentInstructions) = input.monthlyExtraBudget + OneTimeAmount
    /\ \A k \in 1..2 : result.paymentInstructions[k].extraPayment > 0

\* C28: an instruction has a projectedPayoffDate exactly when its card started
\* with a positive balance and reached zero within the horizon; the date is
\* the first timeline month in which the card's balance is 0;
\* paysOffThisMonth holds exactly when that month is 1; and an uncapped plan's
\* monthsToDebtFree is the largest payoff month of all cards.
C28_MonthsAhead(date) == (date[1] - now[1]) * 12 + (date[2] - now[2])

C28_PayoffMonths ==
    {C28_MonthsAhead(result.paymentInstructions[k].projectedPayoffDate[1]) :
        k \in {j \in 1..Len(result.paymentInstructions) :
                  result.paymentInstructions[j].projectedPayoffDate # <<>>}}

C28_Largest(S) == IF S = {} THEN 0 ELSE CHOOSE m \in S : \A n \in S : n <= m

C28_PayoffDates ==
    pc = "done" =>
        /\ \A k \in 1..Len(result.paymentInstructions) :
            LET ins == result.paymentInstructions[k]
                id == ins.cardId
                tl == result.timeline
            IN  /\ (ins.projectedPayoffDate # <<>>)
                      <=> (id \in PositiveIds /\ ReachedZero(tl, id))
                /\ ins.projectedPayoffDate # <<>> =>
                      LET m == C28_MonthsAhead(ins.projectedPayoffDate[1]) IN
                      /\ m \in 1..Len(tl)
                      /\ ins.projectedPayoffDate[1][2] \in 1..12
                      /\ BalanceIn(tl[m], id) = 0
                      /\ \A j \in 1..(m - 1) : BalanceIn(tl[j], id) > 0
                /\ ins.paysOffThisMonth
                      <=> (/\ ins.projectedPayoffDate # <<>>
                           /\ C28_MonthsAhead(ins.projectedPayoffDate[1]) = 1)
        /\ ~result.capped => result.monthsToDebtFree = C28_Largest(C28_PayoffMonths)

\* an uncapped plan in which one card is paid off in month 1 and the other in
\* a later calendar year
C28_Witness ==
    /\ pc = "done"
    /\ ~result.capped
    /\ Len(result.paymentInstructions) = 2
    /\ result.paymentInstructions[2].paysOffThisMonth
    /\ result.paymentInstructions[2].projectedPayoffDate[1][1] = now[1]
    /\ ~result.paymentInstructions[1].paysOffThisMonth
    /\ result.paymentInstructions[1].projectedPayoffDate # <<>>
    /\ result.paymentInstructions[1].projectedPayoffDate[1][1] > now[1]
    /\ result.monthsToDebtFree > 2

\* a capped plan: the card that is never paid off has no payoff date
C28_WitnessCapped ==
    /\ pc = "done"
    /\ result.capped
    /\ \E k \in 1..Len(result.paymentInstructions) :
        /\ result.paymentInstructions[k].cardId \in PositiveIds
        /\ result.paymentInstructions[k].projectedPayoffDate = <<>>

\* hundredths of a cent by which the aggregate balance exceeds t% of the limit
C29_Excess(t) == 100 * AggregateBalance - t * AggregateLimit

C29_Ordered ==
    LET ms == result.milestones[1].milestones IN
    /\ [k \in 1..Len(ms) |-> ms[k].threshold] = <<75, 50, 30, 10>>
    /\ \A j, k \in 1..Len(ms) :
        j < k =>
            /\ ms[j].dollarsNeeded <= ms[k].dollarsNeeded
            /\ ms[k].achieved => ms[j].achieved

\* C29 (amended): for a balance >= 0, a milestone whose target balance is not
\* exceeded, and every milestone for a limit <= 0, has dollarsNeeded 0 and is
\* achieved; an achieved milestone with a positive dollarsNeeded has a balance
\* that exceeds t% of the limit by less than 0.05% of the limit; a milestone
\* that is not achieved has a balance above t% of the limit, and a positive
\* dollarsNeeded when the limit is at least 10.00; dollarsNeeded does not
\* decrease along 75, 50, 30, 10 and an achieved threshold implies every
\* higher threshold achieved.
C29_AchievedAndNeeded ==
    (pc = "milestones" /\ Len(input.cards) > 0 /\ AggregateBalance >= 0) =>
        LET ms == result.milestones[1].milestones IN
        /\ C29_Ordered
        /\ \A k \in 1..Len(ms) :
            LET t == ms[k].threshold IN
            /\ ms[k].dollarsNeeded >= 0
            /\ (AggregateLimit <= 0 \/ C29_Excess(t) <= 0) =>
                   ms[k].achieved /\ ms[k].dollarsNeeded = 0
            /\ (ms[k].achieved /\ ms[k].dollarsNeeded > 0) =>
                   C29_Excess(t) > 0 /\ 20 * C29_Excess(t) < AggregateLimit
            /\ ~ms[k].achieved =>
                   /\ C29_Excess(t) > 0
                   /\ AggregateLimit >= 1000 => ms[k].dollarsNeeded > 0

\* C29 as stated: achieved exactly when dollarsNeeded is 0
C29_AsClaimed ==
    (pc = "milestones" /\ Len(input.cards) > 0 /\ AggregateBalance >= 0) =>
        LET ms == result.milestones[1].milestones IN
        /\ C29_Ordered
        /\ \A k \in 1..Len(ms) : ms[k].achieved <=> (ms[k].dollarsNeeded = 0)

\* 3004 of 10000 is 30.04%, shown as 30.0: the 30% milestone is achieved with
\* 0.04 still to pay, the 10% milestone is not achieved and the 50% one is
\* achieved with nothing to pay
C29_Witness ==
    /\ pc = "milestones"
    /\ AggregateBalance = 3004
    /\ AggregateLimit = 10000
    /\ result.milestones[1].currentUtilization = 300
    /\ result.milestones[1].milestones[3].achieved
    /\ result.milestones[1].milestones[3].dollarsNeeded = 4
    /\ ~result.milestones[1].milestones[4].achieved
    /\ result.milestones[1].milestones[4].dollarsNeeded = 2004
    /\ result.milestones[1].milestones[2].achieved
    /\ result.milestones[1].milestones[2].dollarsNeeded = 0

\* the budget and the one-time payment the simulated plan runs with
C30_Budget ==
    IF scenario.budgetChange = <<>> THEN scenario.monthlyExtraBudget
    ELSE scenario.budgetChange[1]

C30_OneTime ==
    IF scenario.oneTimePayment = <<>> THEN 0 ELSE scenario.oneTimePayment[1]

C30_MoreMoney ==
    /\ scenario.strategyOverride = <<>>
    /\ C30_Budget >= scenario.monthlyExtraBudget
    /\ C30_OneTime >= 0

C30_NoOverride ==
    /\ scenario.strategyOverride = <<>>
    /\ C30_Budget = scenario.monthlyExtraBudget
    /\ C30_OneTime = 0

C30_ValidPortfolio ==
    \A i \in 1..Len(scenario.cards) :
        /\ scenario.cards[i].currentBalance >= 0
        /\ scenario.cards[i].apr >= 0
        /\ scenario.cards[i].minimumPayment >= 0

C30_DistinctAprs ==
    \A i, j \in 1..Len(scenario.cards) :
        (i # j /\ scenario.cards[i].currentBalance > 0 /\ scenario.cards[j].currentBalance > 0)
            => scenario.cards[i].apr # scenario.cards[j].apr

C30_NothingLost == simulation.monthsSaved >= 0 /\ simulation.interestSaved >= 0

C30_SnowballLonger ==
    /\ phase = "returned"
    /\ scenario.strategy = "snowball"
    /\ C30_MoreMoney
    /\ C30_Budget = 2100
    /\ C30_OneTime = 1000
    /\ simulation.monthsSaved = -1

\* snowball, 1.00 more a month: the simulated plan costs more interest
C30_SnowballCostlier ==
    /\ phase = "returned"
    /\ scenario.strategy = "snowball"
    /\ C30_MoreMoney
    /\ simulation.interestSaved < 0

\* no money is added and nothing changes
C30_NothingAdded ==
    /\ phase = "returned"
    /\ C30_NoOverride
    /\ scenario.oneTimePayment = <<0>>
    /\ scenario.budgetChange = <<2000>>
    /\ simulation.current.monthsToDebtFree > 1

====
